---- MODULE Spec2Model ----
(***************************************************************************)
(* Model of the permission-aware query layer of doc-services-fastapi:      *)
(*   utils/base_query.py  organization hierarchy resolver, its cache       *)
(*                        invalidation, and the WHERE-clause compiler      *)
(*   utils/mysql.py       AsyncExecutor (_execute, delete, transaction)    *)
(* The relational store (sys_org, the target table) and the cache store    *)
(* (redis) are state; every await of the code is one step of a request.    *)
(***************************************************************************)
EXTENDS Integers, Sequences, FiniteSets, TLC

\* ------------------------------------------------------------------ bounds
MaxOrg == 3
MaxCallOrg == 1
NProcs == 2
MaxTopo == 2
MaxRow == 2
MaxIds == 2
MaxOps == 2
MaxChain == 12
MaxName == 4
MaxSort == 2
MaxPage == 3
MaxLimit == 10
MaxUser == 2
MaxLogin == 2

OrgIds == 1..MaxOrg
\* the organizations requests are made for (callers' home organizations)
CallOrgs == 1..MaxCallOrg
Procs == 1..NProcs
RowIds == 1..MaxRow
AuthUsers == 1..MaxUser

\* ------------------------------------------------------- program constants
\* ex_time = 3600 + random.randint(0, 300)
TtlBase == 3600
TtlJitter == 300
\* ex_time = 1800 + random.randint(-300, 300)
HierTtlBase == 1800
HierTtlJitter == 300
\* WHERE c.org_id != 0 AND depth < 10
DepthBound == 10

VARIABLES
    sys_org,    \* rows of `sys_org`: records [id, org_id] (org_id = parent id)
    redis,      \* the cache store: key -> entry
    res,        \* per request: the frame of get_user_organizations
    hier,       \* per request: the frame of get_org_hierarchy
    inv,        \* the outcome of the last delete_organizations_cache
    topo,       \* number of topology changes made so far (bounded)
    last,       \* history: per organization, the last completed resolver call
    rows,       \* committed rows of the target table: records [id, org_id, is_delete]
    conn,       \* per request: its connection checkout and open transaction
    cmp,        \* per request: the frame of get_filter_sql
    del,        \* per request: the frame of an AsyncExecutor write (delete, update, ...)
    txn,        \* per request: the frame of AsyncExecutor.transaction
    fn,         \* the last call of a function without side effects, and its result
    auth,       \* the login sessions: profile records, pending cache tasks, requests
    past        \* history: the descendant sets the organization table has held

appVars == <<rows, conn, cmp, del, txn, fn, auth, past>>
vars == <<sys_org, redis, res, hier, inv, topo, last, rows, conn, cmp, del, txn, fn, auth, past>>

\* ------------------------------------------------------------ organization table
HasRow(tbl, o) == \E r \in tbl : r.id = o

\* The rows whose parent (org_id) is one of `ids`:
\*   SELECT o.id FROM sys_org o INNER JOIN org_tree ot ON o.org_id = ot.id
ChildrenOf(tbl, ids) == {r.id : r \in {x \in tbl : x.org_id \in ids}}

\* WITH RECURSIVE org_tree ... UNION ALL ...: one level per iteration, until a
\* level is empty.  UNION ALL never removes a row seen before, so on a parent
\* cycle the levels never become empty and the store aborts the statement.
RECURSIVE org_tree(_, _, _, _)
org_tree(tbl, level, acc, depth) ==
    IF level = {} THEN [ok |-> TRUE, ids |-> acc]
    ELSE IF depth > Cardinality(tbl) THEN [ok |-> FALSE, ids |-> {}]
    ELSE org_tree(tbl, ChildrenOf(tbl, level), acc \cup level, depth + 1)

\* cur.execute(recursive_sql, [org_id]); rows = fetchall(); {row["id"] ...}
\* a query without the recursive member: the organization and its children
recursive_sql_flat(tbl, org_id) ==
    LET self == {r.id : r \in {x \in tbl : x.id = org_id}} IN
    [ok |-> TRUE, ids |-> self \cup ChildrenOf(tbl, self)]

recursive_sql(tbl, org_id) ==
    org_tree(tbl, {r.id : r \in {x \in tbl : x.id = org_id}}, {}, 0)

\* The ancestors of x, x included, by walking the parent column upwards.
RECURSIVE UpChain(_, _, _)
UpChain(tbl, x, n) ==
    IF n = 0 \/ ~HasRow(tbl, x) THEN {}
    ELSE {x} \cup UpChain(tbl, (CHOOSE r \in tbl : r.id = x).org_id, n - 1)

\* The nodes from which walking upwards reaches o: o's descendants, o included.
ReachableFrom(tbl, o) ==
    {x \in OrgIds : o \in UpChain(tbl, x, Cardinality(tbl))}

\* per organization that callers ask for, its descendants in a table
Descendants(tbl) == [o \in CallOrgs |-> ReachableFrom(tbl, o)]

\* ------------------------------------------------------------------ cache keys
\* redis_key = f"auth_org_ids:{org_id}"
auth_org_ids_key(org_id) == [stem |-> "auth_org_ids", sep |-> ":", id |-> org_id]
\* redis_key = f"org_parent:{org_id}"
org_parent_key(org_id) == [stem |-> "org_parent", sep |-> ":", id |-> org_id]

Keys == {auth_org_ids_key(o) : o \in CallOrgs} \cup {org_parent_key(o) : o \in CallOrgs}

NoKey == [kind |-> "none"]
SetEntry(members, ttl) == [kind |-> "set", members |-> members, ttl |-> ttl]

\* SMEMBERS: the members of a set key, the empty set when the key is absent
smembers(store, key) ==
    IF store[key].kind = "set" THEN store[key].members ELSE {}

\* SADD creates the key (without expiry) or adds to the members it holds
sadd(store, key, members) ==
    [store EXCEPT ![key] =
        IF store[key].kind = "set"
        THEN SetEntry(store[key].members \cup members, store[key].ttl)
        ELSE SetEntry(members, 0)]

\* EXPIRE sets the time to live of an existing key and does nothing otherwise
expire(store, key, ex_time) ==
    IF store[key].kind = "none" THEN store
    ELSE [store EXCEPT ![key].ttl = ex_time]

\* ex_time = 3600 + random.randint(0, 300): the two ends of the range
ExTimes == {TtlBase, TtlBase + TtlJitter}

\* ------------------------------------------------------------- history (ghost)
NoCall == [valid |-> FALSE, set |-> {}, cached |-> FALSE]

IdleRes ==
    [pc |-> "idle", caller |-> "none", org |-> 0, org_set |-> {},
     usedDb |-> FALSE, err |-> "none",
     clean |-> FALSE, fresh |-> FALSE, prev |-> NoCall]

\* An event on organization `orgs`' entries ends every "twice in a row" there.
Disturb(frames, orgs) ==
    [p \in Procs |->
        IF frames[p].org \in orgs /\ frames[p].pc # "idle"
        THEN [frames[p] EXCEPT !.clean = FALSE, !.prev = NoCall]
        ELSE frames[p]]

Forget(h, orgs) == [o \in CallOrgs |-> IF o \in orgs THEN NoCall ELSE h[o]]

\* cause: the store whose failure made the call raise
IdleHier ==
    [pc |-> "idle", org |-> 0, names |-> <<>>, ids |-> <<>>, err |-> "none",
     cause |-> "none", usedDb |-> FALSE]

NoInv == [result |-> "none", left |-> {}]

\* ============================================================ utils/utils.py
UpperToLower ==
    [c \in {"A","B","C","D","E","F","G","H","I","J","K","L","M","N","O","P","Q",
            "R","S","T","U","V","W","X","Y","Z"} |->
        CASE c = "A" -> "a" [] c = "B" -> "b" [] c = "C" -> "c" [] c = "D" -> "d"
          [] c = "E" -> "e" [] c = "F" -> "f" [] c = "G" -> "g" [] c = "H" -> "h"
          [] c = "I" -> "i" [] c = "J" -> "j" [] c = "K" -> "k" [] c = "L" -> "l"
          [] c = "M" -> "m" [] c = "N" -> "n" [] c = "O" -> "o" [] c = "P" -> "p"
          [] c = "Q" -> "q" [] c = "R" -> "r" [] c = "S" -> "s" [] c = "T" -> "t"
          [] c = "U" -> "u" [] c = "V" -> "v" [] c = "W" -> "w" [] c = "X" -> "x"
          [] c = "Y" -> "y" [] c = "Z" -> "z"]

isupper(c) == c \in DOMAIN UpperToLower
lower(c) == IF isupper(c) THEN UpperToLower[c] ELSE c

RECURSIVE lstrip_underscore(_)
lstrip_underscore(s) ==
    IF s # <<>> /\ Head(s) = "_" THEN lstrip_underscore(Tail(s)) ELSE s

RECURSIVE underscore_upper(_)
underscore_upper(s) ==
    IF s = <<>> THEN <<>>
    ELSE (IF isupper(Head(s)) THEN <<"_", lower(Head(s))>> ELSE <<Head(s)>>)
         \o underscore_upper(Tail(s))

\* "".join(["_" + c.lower() if c.isupper() else c for c in s]).lstrip("_")
camel_to_snake(s) == lstrip_underscore(underscore_upper(s))

LowerOf(u) == UpperToLower[u]

islower(c) == \E u \in DOMAIN UpperToLower : LowerOf(u) = c
upper(c) == IF islower(c) THEN CHOOSE u \in DOMAIN UpperToLower : LowerOf(u) = c ELSE c

\* string.split("_")
RECURSIVE split_underscore(_, _)
split_underscore(s, part) ==
    IF s = <<>> THEN <<part>>
    ELSE IF Head(s) = "_" THEN <<part>> \o split_underscore(Tail(s), <<>>)
    ELSE split_underscore(Tail(s), Append(part, Head(s)))

\* a word left as it is
capitalize_none(word) == word

\* word.capitalize(): first character upper case, the others lower case
capitalize(word) ==
    IF word = <<>> THEN <<>>
    ELSE <<upper(Head(word))>> \o [i \in 1..(Len(word) - 1) |-> lower(word[i + 1])]

RECURSIVE join_capitalized(_)
join_capitalized(parts) ==
    IF parts = <<>> THEN <<>>
    ELSE capitalize(Head(parts)) \o join_capitalized(Tail(parts))

\* parts[0] + "".join(word.capitalize() for word in parts[1:])
snake_to_camel(string) ==
    LET parts == split_underscore(string, <<>>) IN
    Head(parts) \o join_capitalized(Tail(parts))

NoFn == [name |-> "none", arg |-> <<>>, out |-> <<>>]

\* ====================================================== the query compiler
\* Strings that are inspected character by character are sequences of
\* one-character strings.
Contains(s, sub) ==
    \E i \in 0..(Len(s) - Len(sub)) : \A j \in 1..Len(sub) : s[i + j] = sub[j]

\* request values: None, a string, a list of strings
VNone == [kind |-> "none", items |-> <<>>]
VStr(x) == [kind |-> "str", items |-> <<x>>]
VList(xs) == [kind |-> "list", items |-> xs]

\* value is None or value == [] or value == ""
IsBlank(value) ==
    \/ value.kind = "none"
    \/ value.kind = "list" /\ value.items = <<>>
    \/ value.kind = "str" /\ value.items = <<"">>

\* a test for "time" in place of "Time"
is_valid_time_range_lower(key, value) ==
    /\ Contains(key, <<"t", "i", "m", "e">>)
    /\ value.kind = "list"
    /\ Len(value.items) = 2

\* if "Time" in key and isinstance(value, list) and len(value) == 2
is_valid_time_range(key, value) ==
    /\ Contains(key, <<"T", "i", "m", "e">>)
    /\ value.kind = "list"
    /\ Len(value.items) = 2

\* alias = table_alias_map.get(name, ""); f"{alias}.{name}" if alias else name
qualified(table_alias_map, name) ==
    IF name \in DOMAIN table_alias_map /\ table_alias_map[name] # <<>>
    THEN table_alias_map[name] \o <<".">> \o name
    ELSE name

\* One condition of the WHERE clause: the SQL text it contributes is the
\* operator over its (qualified) field names, with n placeholders (%s) and
\* the literal text `lit` written into the statement.
Cond(op, fields, n) == [op |-> op, fields |-> fields, n |-> n, lit |-> <<>>]

\* bound parameters
LikeParam(value) == [k |-> "like", v |-> value, org |-> 0]
ValParam(value) == [k |-> "value", v |-> value, org |-> 0]
OrgParam(id) == [k |-> "org", v |-> VNone, org |-> id]

\* 1. keywords: "(f1 LIKE %s OR f2 LIKE %s ...)", each parameter %keywords%
keyword_clause(kw, keyword_fields, table_alias_map) ==
    IF kw.present /\ ~IsBlank(kw.value) /\ keyword_fields # <<>>
    THEN [conds |-> <<Cond("ANY LIKE",
                           [i \in 1..Len(keyword_fields) |->
                               qualified(table_alias_map,
                                         camel_to_snake(keyword_fields[i]))],
                           Len(keyword_fields))>>,
          params |-> [i \in 1..Len(keyword_fields) |-> LikeParam(kw.value)]]
    ELSE [conds |-> <<>>, params |-> <<>>]

\* conditions.append(f"{field_name} LIKE %s"); params.append(f"%{value}%")
\* a LIKE condition with the value written into the statement
like_condition_inline(field_name, value) ==
    [conds |-> <<[op |-> "LIKE", fields |-> <<field_name>>, n |-> 0,
                  lit |-> value.items]>>,
     params |-> <<>>]

like_condition(field_name, value) ==
    [conds |-> <<Cond("LIKE", <<field_name>>, 1)>>, params |-> <<LikeParam(value)>>]

\* 2. one item of body.items()
filter_clause(key, value, table_alias_map, precise_fields) ==
    LET field_name == qualified(table_alias_map, camel_to_snake(key)) IN
    IF IsBlank(value) THEN [conds |-> <<>>, params |-> <<>>]
    ELSE IF is_valid_time_range(key, value)
    THEN [conds |-> <<Cond("BETWEEN", <<field_name>>, 2)>>,
          params |-> <<ValParam(VStr(value.items[1])), ValParam(VStr(value.items[2]))>>]
    ELSE IF camel_to_snake(key) \in precise_fields
    THEN [conds |-> <<Cond("=", <<field_name>>, 1)>>, params |-> <<ValParam(value)>>]
    ELSE like_condition(field_name, value)

RECURSIVE filter_clauses(_, _, _)
filter_clauses(body, table_alias_map, precise_fields) ==
    IF body = <<>> THEN [conds |-> <<>>, params |-> <<>>]
    ELSE LET h == filter_clause(Head(body).key, Head(body).value,
                                table_alias_map, precise_fields)
             t == filter_clauses(Tail(body), table_alias_map, precise_fields)
         IN [conds |-> h.conds \o t.conds, params |-> h.params \o t.params]

\* allowed_org_ids: None, False, or a list of organization ids
AllowedNone == [k |-> "None", ids |-> <<>>]
AllowedFalse == [k |-> "False", ids |-> <<>>]
AllowedList(ids) == [k |-> "list", ids |-> ids]

NoUser == [present |-> FALSE, org_id |-> 0]
User(org_id) == [present |-> TRUE, org_id |-> org_id]

\* resolution only for an explicitly passed empty list
ResolvesScope_list_only(allowed_org_ids, current_user) ==
    /\ allowed_org_ids.k = "list" /\ allowed_org_ids.ids = <<>>
    /\ current_user.present
    /\ current_user.org_id # 0

\* if not allowed_org_ids and allowed_org_ids != False and current_user:
\*     if current_user.org_id != 0:
ResolvesScope(allowed_org_ids, current_user) ==
    /\ allowed_org_ids.k = "None" \/ allowed_org_ids.ids = <<>>
    /\ allowed_org_ids.k # "False"
    /\ current_user.present
    /\ current_user.org_id # 0

\* if allowed_org_ids:
HasAccessClause_truthy(allowed_org_ids) ==
    allowed_org_ids.k = "list" /\ allowed_org_ids.ids # <<>>

\* if allowed_org_ids != False and allowed_org_ids is not None:
HasAccessClause(allowed_org_ids) ==
    allowed_org_ids.k # "False" /\ allowed_org_ids.k # "None"

org_id_field == <<"o", "r", "g", "_", "i", "d">>

\* 3. conditions.append(f"{field_name} IN ({placeholders})")
\*    params.extend(allowed_org_ids)
access_clause(allowed_org_ids, table_alias_map) ==
    IF HasAccessClause(allowed_org_ids)
    THEN [conds |-> <<Cond("IN", <<qualified(table_alias_map, org_id_field)>>,
                           Len(allowed_org_ids.ids))>>,
          params |-> [i \in 1..Len(allowed_org_ids.ids) |->
                         OrgParam(allowed_org_ids.ids[i])]]
    ELSE [conds |-> <<>>, params |-> <<>>]

\* _generate_where_clause, with allowed_org_ids already resolved:
\* " AND ".join(conditions), params
generate_where_clause(body, kw, ep, allowed_org_ids) ==
    LET k == keyword_clause(kw, ep.keyword_fields, ep.table_alias_map)
        f == filter_clauses(body, ep.table_alias_map, ep.precise_fields)
        a == access_clause(allowed_org_ids, ep.table_alias_map)
    IN [conds |-> k.conds \o f.conds \o a.conds,
        params |-> k.params \o f.params \o a.params]

\* get_filter_sql: f"{base_sql} AND {where}" / f"{base_sql} WHERE {where}" / base_sql
complete_sql(base_has_where, where) ==
    [glue |-> IF where.conds = <<>> THEN "none"
              ELSE IF base_has_where THEN "AND" ELSE "WHERE",
     conds |-> where.conds,
     params |-> where.params]

\* A set in some iteration order.
RECURSIVE SetToSeq(_)
SetToSeq(S) ==
    IF S = {} THEN <<>>
    ELSE LET x == CHOOSE y \in S : \A z \in S : y <= z
         IN <<x>> \o SetToSeq(S \ {x})

\* ------------------------------------------------------ compiler inputs
k_name == <<"n", "a", "m", "e">>
k_id == <<"i", "d">>
k_createTime == <<"c", "r", "e", "a", "t", "e", "T", "i", "m", "e">>
k_fileType == <<"f", "i", "l", "e", "T", "y", "p", "e">>
k_create_time == <<"c", "r", "e", "a", "t", "e", "_", "t", "i", "m", "e">>
alias_f == <<"f">>

\* The callers of get_filter_sql: the file list endpoint, an endpoint over a
\* join with aliased columns, and a call with the defaults of the signature.
Endpoints ==
    {[base_has_where |-> TRUE, keyword_fields |-> <<k_name>>,
      table_alias_map |-> <<>>, precise_fields |-> {k_id}],
     [base_has_where |-> FALSE, keyword_fields |-> <<k_name, k_fileType>>,
      table_alias_map |-> (k_name :> alias_f) @@ (org_id_field :> alias_f)
                           @@ (k_create_time :> alias_f),
      precise_fields |-> {k_id, k_create_time}],
     [base_has_where |-> FALSE, keyword_fields |-> <<>>,
      table_alias_map |-> <<>>, precise_fields |-> {}]}

NoEndpoint ==
    [base_has_where |-> FALSE, keyword_fields |-> <<>>,
     table_alias_map |-> <<>>, precise_fields |-> {}]

MaxBody == 2
BodyKeys == {k_name, k_id, k_createTime}
BodyValues ==
    {VNone, VStr(""), VStr("x"), VStr("y"),
     VList(<<"x", "y">>), VList(<<"y", "x">>), VList(<<"x">>)}

\* body: a dict, in insertion order, without its "keywords" item
Bodies ==
    {b \in UNION {[1..n -> [key : BodyKeys, value : BodyValues]] : n \in 0..MaxBody} :
        \A i, j \in 1..Len(b) : i # j => b[i].key # b[j].key}

\* body.get("keywords"), when "keywords" in body
NoKeywords == [present |-> FALSE, value |-> VNone]
Keywords == {NoKeywords} \cup {[present |-> TRUE, value |-> VStr(x)] : x \in {"", "x", "y"}}

AllowedArgs ==
    {AllowedNone, AllowedFalse, AllowedList(<<>>), AllowedList(<<2>>),
     AllowedList(<<1, 3>>)}

Users == {NoUser, User(0)} \cup {User(o) : o \in CallOrgs}

NoSql == [glue |-> "none", conds |-> <<>>, params |-> <<>>]

IdleCmp ==
    [pc |-> "idle", body |-> <<>>, kw |-> NoKeywords, ep |-> NoEndpoint,
     allowed_org_ids |-> AllowedNone, current_user |-> NoUser,
     scope |-> AllowedNone, sql |-> NoSql, err |-> "none"]

\* ---------------------------------------------------------- relational store
\* The target table of the mutations: id is its primary key; a row carries
\* the organization it belongs to and the logical-delete flag.
NoRow == [present |-> FALSE, org_id |-> 0, is_delete |-> 0]
Row(org_id, is_delete) == [present |-> TRUE, org_id |-> org_id, is_delete |-> is_delete]

\* a statement's effect on the table
Write(effect, ids, org_id) == [effect |-> effect, ids |-> ids, org_id |-> org_id]

apply(table, w) ==
    [i \in RowIds |->
        IF i \notin w.ids THEN table[i]
        ELSE IF w.effect = "flag" THEN [table[i] EXCEPT !.is_delete = 1]
        ELSE IF w.effect = "remove" THEN NoRow
        ELSE Row(w.org_id, 0)]

RECURSIVE apply_all(_, _)
apply_all(table, writes) ==
    IF writes = <<>> THEN table
    ELSE apply_all(apply(table, Head(writes)), Tail(writes))

\* a transaction that ends without its commit leaves the table as it was
commit_discard(table, writes) == table

\* await conn.commit()
commit(table, writes) == apply_all(table, writes)

Range(seq) == {seq[i] : i \in 1..Len(seq)}

\* a connection checked out of the pool, and the writes of its open transaction;
\* pooled: the `async with pool.acquire()` block was left, which gives the
\* connection back to the pool
NoConn == [st |-> "none", writes |-> <<>>, pooled |-> FALSE]

\* current_org_id: Optional[int]
NoOrg == [present |-> FALSE, id |-> 0]
Org(o) == [present |-> TRUE, id |-> o]

\* UPDATE {table} SET {delete_field} = %s WHERE {id_field} IN (ids)
\*   [AND {org_field} IN (allowed_orgs)]          -- rowcount: rows changed
\* DELETE FROM {table} WHERE {id_field} IN (ids) [AND {org_field} IN (...)]
delete_sql(table, ids, current_org_id, allowed_orgs, physical) ==
    LET matched == {i \in Range(ids) :
                       /\ table[i].present
                       /\ current_org_id.present => table[i].org_id \in allowed_orgs}
        changed == IF physical THEN matched
                   ELSE {i \in matched : table[i].is_delete # 1}
    IN [rowcount |-> Cardinality(changed),
        write |-> Write(IF physical THEN "remove" ELSE "flag", changed, 0)]

\* a check that lets every resolved set through
NoAccess_never(allowed_orgs) == FALSE

\* if not allowed_orgs: raise HTTPException(401, ...)
NoAccess(allowed_orgs) == allowed_orgs = {}

IdleDel ==
    [pc |-> "idle", op |-> "none", operations |-> <<>>, i |-> 0, result |-> 0,
     failed |-> FALSE, ids |-> <<>>, current_org_id |-> NoOrg, physical |-> FALSE,
     resolved |-> FALSE, resolver_err |-> "none", allowed_orgs |-> {},
     success |-> FALSE, affected_rows |-> 0,
     err |-> "none", missing_count |-> 0, sent |-> FALSE,
     before |-> [i \in RowIds |-> NoRow]]

\* operations: [(op_type, sql, params), ...]; a statement flags a row
\* (update), removes it (delete) or adds it (insert)
Operation(op_type, id, org_id) == [op_type |-> op_type, id |-> id, org_id |-> org_id]

\* cur.execute(sql, params) inside the transaction: an insert of an existing
\* primary key is refused by the store
statement(table, op) ==
    IF op.op_type = "insert"
    THEN [ok |-> ~table[op.id].present,
          write |-> Write("insert", {op.id}, op.org_id)]
    ELSE IF op.op_type = "delete"
    THEN [ok |-> TRUE,
          write |-> Write("remove", {i \in {op.id} : table[i].present}, 0)]
    ELSE [ok |-> TRUE,
          write |-> Write("flag", {i \in {op.id} : table[i].present}, 0)]

IdleTxn ==
    [pc |-> "idle", operations |-> <<>>, i |-> 0, result |-> "none",
     before |-> [i \in RowIds |-> NoRow]]

InitRows == [i \in RowIds |-> Row(i + 1, 0)]

\* ------------------------------------------------------------ login sessions
\* A user's profile record is the cache hash f"user:{orgId}_{id}"; a token is
\* 0 (none sent), -1 (fails verification: forged or expired) or the user id of
\* its verified payload.
NoToken == 0
BadToken == 0 - 1

IdleReq ==
    [pc |-> "idle", route |-> "none", token |-> NoToken, status |-> 0, user |-> 0,
     accepted |-> FALSE, hit |-> FALSE, stale |-> FALSE, swallowed |-> FALSE]

\* profile: the record is in the cache; issued: a token was issued to the user;
\* tasks: _async_cache_user tasks added and not yet run; out (history): a
\* logout of the user has completed and no record was written since.
NoAuth ==
    [profile |-> [u \in AuthUsers |-> FALSE],
     issued |-> [u \in AuthUsers |-> FALSE],
     tasks |-> [u \in AuthUsers |-> 0],
     logins |-> 0,
     out |-> [u \in AuthUsers |-> FALSE],
     req |-> [p \in Procs |-> IdleReq]]

\* ------------------------------------------------------------------------ Init
InitTable ==
    {[id |-> 1, org_id |-> 0], [id |-> 2, org_id |-> 1], [id |-> 3, org_id |-> 2]}

Init ==
    /\ sys_org = InitTable
    /\ redis = [k \in Keys |-> NoKey]
    /\ res = [p \in Procs |-> IdleRes]
    /\ hier = [p \in Procs |-> IdleHier]
    /\ inv = NoInv
    /\ topo = 0
    /\ last = [o \in CallOrgs |-> NoCall]
    /\ rows = InitRows
    /\ conn = [p \in Procs |-> NoConn]
    /\ cmp = [p \in Procs |-> IdleCmp]
    /\ del = [p \in Procs |-> IdleDel]
    /\ txn = [p \in Procs |-> IdleTxn]
    /\ fn = NoFn
    /\ auth = NoAuth
    /\ past = {Descendants(sys_org)}

Idle(p) ==
    /\ res[p].pc = "idle" /\ hier[p].pc = "idle" /\ cmp[p].pc = "idle"
    /\ del[p].pc = "idle" /\ txn[p].pc = "idle"

\* no other request is in flight
Alone(p) == \A q \in Procs \ {p} : Idle(q)

\* where requests are served one after another, they use the first slot
SeqProcs == {1}

\* ------------------------------------------------- get_user_organizations
\* A request calls get_user_organizations(org_id).
StartResolve(frames, p, o, caller, h) ==
    [frames EXCEPT ![p] =
        [IdleRes EXCEPT !.pc = "smembers", !.caller = caller, !.org = o,
                        !.clean = TRUE, !.prev = h[o]]]

ResolveCall(p, o) ==
    /\ Idle(p)
    /\ res' = StartResolve(res, p, o, "direct", last)
    /\ UNCHANGED <<sys_org, redis, hier, inv, topo, last, appVars>>

\* a lookup that never answers from the cache
CacheHit_never(cached) == FALSE

\* if cached := await redis_dbs.default.smembers(redis_key): return {int(..)}
\* The read is outside any try: a cache-store error leaves the function.
CacheHit(cached) == cached # {}

Smembers(p) ==
    /\ res[p].pc = "smembers"
    /\ \/ res' = [res EXCEPT ![p].pc = "raised", ![p].err = "RedisError"]
       \/ LET cached == smembers(redis, auth_org_ids_key(res[p].org)) IN
          res' = [res EXCEPT
                    ![p].pc = IF CacheHit(cached) THEN "done" ELSE "query",
                    ![p].org_set = cached]
    /\ UNCHANGED <<sys_org, redis, hier, inv, topo, last, appVars>>

\* async with pool.acquire() ...: cur.execute(recursive_sql, [org_id])
\* A store error (or the aborted recursion) leaves the function.
\* if org_set: (cache population) ... ; return org_set
ShouldCache(org_set) == org_set # {}

Query(p) ==
    /\ res[p].pc = "query"
    /\ \/ res' = [res EXCEPT ![p].pc = "raised", ![p].err = "StoreError"]
       \/ LET q == recursive_sql(sys_org, res[p].org) IN
          IF ~q.ok
          THEN res' = [res EXCEPT ![p].pc = "raised", ![p].err = "StoreError"]
          ELSE res' = [res EXCEPT
                         ![p].pc = IF ShouldCache(q.ids) THEN "sadd" ELSE "done",
                         ![p].org_set = q.ids,
                         ![p].usedDb = TRUE,
                         ![p].fresh = TRUE]
    /\ UNCHANGED <<sys_org, redis, hier, inv, topo, last, appVars>>

\* await redis_dbs.default.sadd(redis_key, *org_str_list)
\* except RedisError: logger.warning(...)  -> the result is still returned
Sadd(p) ==
    /\ res[p].pc = "sadd"
    /\ \/ /\ res' = [res EXCEPT ![p].pc = "done"]
          /\ UNCHANGED <<redis, last>>
       \/ /\ redis' = sadd(redis, auth_org_ids_key(res[p].org), res[p].org_set)
          /\ res' = [Disturb(res, {res[p].org}) EXCEPT ![p] =
                        [res[p] EXCEPT !.pc = "expire"]]
          /\ last' = Forget(last, {res[p].org})
    /\ UNCHANGED <<sys_org, hier, inv, topo, appVars>>

\* await redis_dbs.default.expire(redis_key, ex_time)
Expire(p) ==
    /\ res[p].pc = "expire"
    /\ \/ UNCHANGED redis
       \/ \E ex_time \in ExTimes :
            redis' = expire(redis, auth_org_ids_key(res[p].org), ex_time)
    /\ res' = [res EXCEPT ![p].pc = "done"]
    /\ UNCHANGED <<sys_org, hier, inv, topo, last, appVars>>

\* The direct caller takes the result (or the exception).
ResolveReturn(p) ==
    /\ res[p].pc \in {"done", "raised"}
    /\ res[p].caller = "direct"
    /\ last' = [last EXCEPT ![res[p].org] =
                  IF res[p].pc = "done" /\ res[p].clean
                  THEN [valid |-> TRUE, set |-> res[p].org_set,
                        cached |-> smembers(redis, auth_org_ids_key(res[p].org))
                                      = res[p].org_set
                                   /\ res[p].org_set # {}]
                  ELSE NoCall]
    /\ res' = [res EXCEPT ![p] = IdleRes]
    /\ UNCHANGED <<sys_org, redis, hier, inv, topo, appVars>>

\* ------------------------------------------------------------- environment
\* The organization topology changes (a collaborator edits sys_org).
Stale(frames) ==
    [p \in Procs |->
        IF frames[p].pc # "idle"
        THEN [frames[p] EXCEPT !.clean = FALSE, !.fresh = FALSE, !.prev = NoCall]
        ELSE frames[p]]

TopologyChange ==
    /\ topo < MaxTopo
    /\ \E o \in OrgIds :
         \/ /\ HasRow(sys_org, o)
            /\ sys_org' = {r \in sys_org : r.id # o}
         \/ \E parent \in 0..MaxOrg :
              sys_org' = {r \in sys_org : r.id # o} \cup {[id |-> o, org_id |-> parent]}
    /\ sys_org' # sys_org
    /\ topo' = topo + 1
    /\ past' = past \cup {Descendants(sys_org')}
    /\ res' = Stale(res)
    /\ last' = [o \in CallOrgs |-> NoCall]
    /\ UNCHANGED <<redis, hier, inv, rows, conn, cmp, del, txn, fn, auth>>

\* A key that carries an expiry reaches it.
KeyExpires(k) ==
    /\ redis[k].kind # "none"
    /\ redis[k].ttl > 0
    /\ redis' = [redis EXCEPT ![k] = NoKey]
    /\ res' = Disturb(res, {k.id})
    /\ last' = Forget(last, {k.id})
    /\ UNCHANGED <<sys_org, hier, inv, topo, appVars>>

\* ------------------------------------------------------ get_org_hierarchy
NameOf(id) == <<"name", id>>

\* WITH RECURSIVE cte: the row of the node (depth 1), then the row of each
\* parent while c.org_id != 0 AND depth < 10; at most one row per level.
\* the recursion with the bound taken one level too far
RECURSIVE cte_inclusive(_, _, _)
cte_inclusive(tbl, id, depth) ==
    IF ~HasRow(tbl, id) THEN <<>>
    ELSE LET row == CHOOSE r \in tbl : r.id = id IN
         <<row>> \o (IF row.org_id # 0 /\ depth <= DepthBound
                     THEN cte_inclusive(tbl, row.org_id, depth + 1)
                     ELSE <<>>)

RECURSIVE cte(_, _, _)
cte(tbl, id, depth) ==
    IF ~HasRow(tbl, id) THEN <<>>
    ELSE LET row == CHOOSE r \in tbl : r.id = id IN
         <<row>> \o (IF row.org_id # 0 /\ depth < DepthBound
                     THEN cte(tbl, row.org_id, depth + 1)
                     ELSE <<>>)

\* the rows in the order of the recursion
Reverse_none(s) == s

Reverse(s) == [i \in 1..Len(s) |-> s[Len(s) + 1 - i]]

\* SELECT name, id FROM cte ORDER BY depth DESC
hierarchy_query(tbl, org_id) == Reverse(cte(tbl, org_id, 1))

RECURSIVE hierarchy_names(_)
hierarchy_names(rs) ==
    IF rs = <<>> THEN <<>>
    ELSE (IF Head(rs).id # 0 THEN <<NameOf(Head(rs).id)>> ELSE <<>>)
         \o hierarchy_names(Tail(rs))

\* names, ids = [], ["0"]; ids.append(str(row["id"]))
hierarchy_ids(rs) == <<0>> \o [i \in 1..Len(rs) |-> rs[i].id]

HierExTimes == {HierTtlBase - HierTtlJitter, HierTtlBase + HierTtlJitter}

HierCall(p, o) ==
    /\ Idle(p)
    /\ hier' = [hier EXCEPT ![p] = [IdleHier EXCEPT !.pc = "get", !.org = o]]
    /\ UNCHANGED <<sys_org, redis, res, inv, topo, last, appVars>>

\* cached = await redis_dbs.default.get(redis_key)   (outside the try)
HierGet(p) ==
    /\ hier[p].pc = "get"
    /\ \/ hier' = [hier EXCEPT ![p].pc = "raised", ![p].err = "RedisError",
                              ![p].cause = "cache"]
       \/ LET e == redis[org_parent_key(hier[p].org)] IN
          IF e.kind = "string"
          THEN hier' = [hier EXCEPT ![p].pc = "done",
                                    ![p].names = e.data.names,
                                    ![p].ids = e.data.ids]
          ELSE hier' = [hier EXCEPT ![p].pc = "query"]
    /\ UNCHANGED <<sys_org, redis, res, inv, topo, last, appVars>>

\* try: ... cur.execute(query, [org_id]) ... except Exception: HTTPException(500)
HierQuery(p) ==
    /\ hier[p].pc = "query"
    /\ \/ hier' = [hier EXCEPT ![p].pc = "raised", ![p].err = "HTTP500",
                              ![p].cause = "relational"]
       \/ LET rs == hierarchy_query(sys_org, hier[p].org) IN
          hier' = [hier EXCEPT ![p].pc = "setex",
                               ![p].usedDb = TRUE,
                               ![p].names = hierarchy_names(rs),
                               ![p].ids = hierarchy_ids(rs)]
    /\ UNCHANGED <<sys_org, redis, res, inv, topo, last, appVars>>

\* await redis_dbs.default.setex(redis_key, ex_time, json.dumps(cache_data))
\* inside the try: a cache-store error becomes HTTPException(500)
HierSetex(p) ==
    /\ hier[p].pc = "setex"
    /\ \/ /\ hier' = [hier EXCEPT ![p].pc = "raised", ![p].err = "HTTP500",
                                 ![p].cause = "cache"]
          /\ UNCHANGED redis
       \/ \E ex_time \in HierExTimes :
            /\ redis' = [redis EXCEPT ![org_parent_key(hier[p].org)] =
                            [kind |-> "string", ttl |-> ex_time,
                             data |-> [names |-> hier[p].names, ids |-> hier[p].ids]]]
            /\ hier' = [hier EXCEPT ![p].pc = "done"]
    /\ UNCHANGED <<sys_org, res, inv, topo, last, appVars>>

HierReturn(p) ==
    /\ hier[p].pc \in {"done", "raised"}
    /\ hier' = [hier EXCEPT ![p] = IdleHier]
    /\ UNCHANGED <<sys_org, redis, res, inv, topo, last, appVars>>

\* The hierarchies the path is asked for: every table of three organizations
\* whose parent is the root 0, an organization, itself, or one without a row
\* (4), with rows possibly absent; and chains ending at MaxChain.
SmallTables ==
    {{[id |-> i, org_id |-> f[i]] : i \in {j \in 1..3 : f[j] # -1}} :
        f \in [1..3 -> -1..4]}

ChainFrom(k) ==
    {[id |-> i, org_id |-> IF i = k THEN 0 ELSE i - 1] : i \in k..MaxChain}

HierTables == SmallTables \cup {ChainFrom(k) : k \in 1..4}

HierCallOrgs == {1, 3, MaxChain}

InitHier ==
    /\ sys_org \in HierTables
    /\ redis = [k \in Keys \cup {org_parent_key(o) : o \in HierCallOrgs} |-> NoKey]
    /\ res = [p \in Procs |-> IdleRes]
    /\ hier = [p \in Procs |-> IdleHier]
    /\ inv = NoInv
    /\ topo = 0
    /\ last = [o \in CallOrgs |-> NoCall]
    /\ rows = InitRows
    /\ conn = [p \in Procs |-> NoConn]
    /\ cmp = [p \in Procs |-> IdleCmp]
    /\ del = [p \in Procs |-> IdleDel]
    /\ txn = [p \in Procs |-> IdleTxn]
    /\ fn = NoFn
    /\ auth = NoAuth
    /\ past = {Descendants(sys_org)}

NextHier ==
    \/ \E p \in SeqProcs, o \in HierCallOrgs : Alone(p) /\ HierCall(p, o)
    \/ \E p \in Procs : HierGet(p)
    \/ \E p \in Procs : HierQuery(p)
    \/ \E p \in Procs : HierSetex(p)
    \/ \E p \in Procs : HierReturn(p)

SpecHier == InitHier /\ [][NextHier]_vars

\* a call that was started runs on: the event loop resumes every awaiting
\* request once its store reply (or error) arrives
SpecHierLive ==
    SpecHier /\ WF_vars(\E p \in Procs : HierGet(p) \/ HierQuery(p) \/ HierSetex(p))

\* ---------------------------------------------- delete_organizations_cache
\* cache_patterns = ["auth_org_ids_*", "org_parent:*"]
cache_patterns ==
    {[stem |-> "auth_org_ids", sep |-> "_"], [stem |-> "org_parent", sep |-> ":"]}

\* scan_iter(pattern): a key matches "<stem><sep>*" when it starts with it
Matches(pattern, key) == key.stem = pattern.stem /\ key.sep = pattern.sep

scan_iter(store, pattern) ==
    {k \in Keys : store[k].kind # "none" /\ Matches(pattern, k)}

\* ConnectionPool(..., decode_responses=True): scan_iter yields str keys, and
\* key.decode("utf-8") on a str raises AttributeError
KeysAreBytes == FALSE

OrgEntries(store) == {k \in Keys : store[k].kind # "none"}

\* try: collect, delete in a pipeline; except Exception: HTTPException(500)
delete_organizations_cache(store) ==
    LET all_keys == UNION {scan_iter(store, pat) : pat \in cache_patterns} IN
    IF all_keys # {} /\ ~KeysAreBytes
    THEN [result |-> "HTTP500", store |-> store]
    ELSE [result |-> "ok",
          store |-> [k \in Keys |-> IF k \in all_keys THEN NoKey ELSE store[k]]]

Invalidate ==
    /\ \/ /\ inv' = [result |-> "HTTP500", left |-> OrgEntries(redis)]
          /\ UNCHANGED redis
       \/ LET r == delete_organizations_cache(redis) IN
          /\ redis' = r.store
          /\ inv' = [result |-> r.result, left |-> OrgEntries(r.store)]
    /\ inv' # inv
    /\ res' = Disturb(res, CallOrgs)
    /\ last' = Forget(last, CallOrgs)
    /\ UNCHANGED <<sys_org, hier, topo, appVars>>

NextResolver ==
    \/ \E p \in Procs, o \in CallOrgs : ResolveCall(p, o)
    \/ \E p \in Procs : Smembers(p)
    \/ \E p \in Procs : Query(p)
    \/ \E p \in Procs : Sadd(p)
    \/ \E p \in Procs : Expire(p)
    \/ \E p \in Procs : ResolveReturn(p)
    \/ TopologyChange
    \/ \E k \in Keys : KeyExpires(k)

SpecResolver == Init /\ [][NextResolver]_vars

\* Concurrent resolutions over a table in which organization 3 is not (yet)
\* below organization 1.
RaceTable ==
    {[id |-> 1, org_id |-> 0], [id |-> 2, org_id |-> 1], [id |-> 3, org_id |-> 0]}

InitRace ==
    /\ sys_org = RaceTable
    /\ redis = [k \in Keys |-> NoKey]
    /\ res = [p \in Procs |-> IdleRes]
    /\ hier = [p \in Procs |-> IdleHier]
    /\ inv = NoInv
    /\ topo = 0
    /\ last = [o \in CallOrgs |-> NoCall]
    /\ rows = InitRows
    /\ conn = [p \in Procs |-> NoConn]
    /\ cmp = [p \in Procs |-> IdleCmp]
    /\ del = [p \in Procs |-> IdleDel]
    /\ txn = [p \in Procs |-> IdleTxn]
    /\ fn = NoFn
    /\ auth = NoAuth
    /\ past = {Descendants(sys_org)}

SpecRace == InitRace /\ [][NextResolver]_vars

\* The cache as the invalidation sees it: requests served one after another.
NextCache ==
    \/ \E p \in SeqProcs, o \in CallOrgs : Alone(p) /\ ResolveCall(p, o)
    \/ \E p \in Procs : Smembers(p)
    \/ \E p \in Procs : Query(p)
    \/ \E p \in Procs : Sadd(p)
    \/ \E p \in Procs : Expire(p)
    \/ \E p \in Procs : ResolveReturn(p)
    \/ \E p \in SeqProcs, o \in CallOrgs : Alone(p) /\ HierCall(p, o)
    \/ \E p \in Procs : HierGet(p)
    \/ \E p \in Procs : HierQuery(p)
    \/ \E p \in Procs : HierSetex(p)
    \/ \E p \in Procs : HierReturn(p)
    \/ TopologyChange
    \/ Invalidate
    \/ \E k \in Keys : KeyExpires(k)

SpecCache == Init /\ [][NextCache]_vars

\* ---------------------------------------------------------- get_filter_sql
CompileCall(p, body, kw, ep, allowed_org_ids, current_user) ==
    /\ Idle(p)
    /\ LET frame == [IdleCmp EXCEPT !.body = body, !.kw = kw, !.ep = ep,
                                    !.allowed_org_ids = allowed_org_ids,
                                    !.current_user = current_user]
       IN IF ResolvesScope(allowed_org_ids, current_user)
          THEN /\ cmp' = [cmp EXCEPT ![p] = [frame EXCEPT !.pc = "resolving"]]
               /\ res' = StartResolve(res, p, current_user.org_id, "compile", last)
          ELSE /\ cmp' = [cmp EXCEPT ![p] =
                            [frame EXCEPT
                                !.pc = "done",
                                !.scope = allowed_org_ids,
                                !.sql = complete_sql(ep.base_has_where,
                                          generate_where_clause(body, kw, ep,
                                                                allowed_org_ids))]]
               /\ UNCHANGED res
    /\ UNCHANGED <<sys_org, redis, hier, inv, topo, last, rows, conn, del, txn, fn, auth, past>>

\* allowed_org_ids = await get_user_organizations(current_user.org_id) returned
\* (or raised: the exception leaves get_filter_sql)
CompileResume(p) ==
    /\ cmp[p].pc = "resolving"
    /\ res[p].caller = "compile"
    /\ res[p].pc \in {"done", "raised"}
    /\ res' = [res EXCEPT ![p] = IdleRes]
    /\ IF res[p].pc = "raised"
       THEN cmp' = [cmp EXCEPT ![p].pc = "raised", ![p].err = res[p].err]
       ELSE LET scope == AllowedList(SetToSeq(res[p].org_set)) IN
            cmp' = [cmp EXCEPT
                      ![p].pc = "done",
                      ![p].scope = scope,
                      ![p].sql = complete_sql(cmp[p].ep.base_has_where,
                                   generate_where_clause(cmp[p].body, cmp[p].kw,
                                                         cmp[p].ep, scope))]
    /\ UNCHANGED <<sys_org, redis, hier, inv, topo, last, rows, conn, del, txn, fn, auth, past>>

CompileReturn(p) ==
    /\ cmp[p].pc \in {"done", "raised"}
    /\ cmp' = [cmp EXCEPT ![p] = IdleCmp]
    /\ UNCHANGED <<sys_org, redis, res, hier, inv, topo, last, rows, conn, del, txn, fn, auth, past>>

CompileTables == {InitTable, {r \in InitTable : r.id # 1}}

InitCompile ==
    /\ sys_org \in CompileTables
    /\ redis = [k \in Keys |-> NoKey]
    /\ res = [p \in Procs |-> IdleRes]
    /\ hier = [p \in Procs |-> IdleHier]
    /\ inv = NoInv
    /\ topo = 0
    /\ last = [o \in CallOrgs |-> NoCall]
    /\ rows = InitRows
    /\ conn = [p \in Procs |-> NoConn]
    /\ cmp = [p \in Procs |-> IdleCmp]
    /\ del = [p \in Procs |-> IdleDel]
    /\ txn = [p \in Procs |-> IdleTxn]
    /\ fn = NoFn
    /\ auth = NoAuth
    /\ past = {Descendants(sys_org)}

NextCompile ==
    \/ \E p \in SeqProcs :
          /\ Alone(p) /\ Idle(p)
          /\ \E body \in Bodies, kw \in Keywords, ep \in Endpoints,
                allowed_org_ids \in AllowedArgs, current_user \in Users :
                  CompileCall(p, body, kw, ep, allowed_org_ids, current_user)
    \/ \E p \in Procs : Smembers(p)
    \/ \E p \in Procs : Query(p)
    \/ \E p \in Procs : Sadd(p)
    \/ \E p \in Procs : Expire(p)
    \/ \E p \in Procs : CompileResume(p)
    \/ \E p \in Procs : CompileReturn(p)

SpecCompile == InitCompile /\ [][NextCompile]_vars

\* ------------------------------------------------------ AsyncExecutor.delete
DeleteCall(p, ids, current_org_id, physical) ==
    /\ Idle(p)
    /\ LET frame == [IdleDel EXCEPT !.op = "delete",
                                    !.ids = ids, !.current_org_id = current_org_id,
                                    !.physical = physical, !.before = rows]
       IN IF ids = <<>>
          THEN del' = [del EXCEPT ![p] = [frame EXCEPT !.pc = "done"]] /\ UNCHANGED res
          ELSE IF current_org_id.present
          THEN /\ del' = [del EXCEPT ![p] = [frame EXCEPT !.pc = "resolving"]]
               /\ res' = StartResolve(res, p, current_org_id.id, "delete", last)
          ELSE del' = [del EXCEPT ![p] = [frame EXCEPT !.pc = "acquire"]] /\ UNCHANGED res
    /\ UNCHANGED <<sys_org, redis, hier, inv, topo, last, rows, conn, cmp, txn, fn, auth, past>>

\* allowed_orgs = await get_user_organizations(current_org_id) returned or
\* raised; except Exception -> 401; if not allowed_orgs -> 401
DeleteResume(p) ==
    /\ del[p].pc = "resolving"
    /\ res[p].caller = "delete"
    /\ res[p].pc \in {"done", "raised"}
    /\ res' = [res EXCEPT ![p] = IdleRes]
    /\ IF res[p].pc = "raised"
       THEN del' = [del EXCEPT ![p].pc = "done", ![p].err = "VerificationFailed",
                               ![p].resolver_err = res[p].err]
       ELSE del' = [del EXCEPT
                      ![p].resolved = TRUE,
                      ![p].allowed_orgs = res[p].org_set,
                      ![p].pc = IF NoAccess(res[p].org_set) THEN "done" ELSE "acquire",
                      ![p].err = IF NoAccess(res[p].org_set) THEN "Unauthorized"
                                 ELSE "none"]
    /\ UNCHANGED <<sys_org, redis, hier, inv, topo, last, rows, conn, cmp, txn, fn, auth, past>>

\* _execute: async with pool.acquire() as raw_conn
\* a failure is caught with conn = None: return False, str(e)
ExecAcquire(p) ==
    /\ del[p].pc = "acquire"
    /\ \/ /\ conn' = [conn EXCEPT ![p] = [st |-> "acquired", writes |-> <<>>, pooled |-> FALSE]]
          /\ del' = [del EXCEPT ![p].pc = "begin"]
       \/ /\ del' = [del EXCEPT ![p].pc = "check", ![p].success = FALSE]
          /\ UNCHANGED conn
    /\ UNCHANGED <<sys_org, redis, res, hier, inv, topo, last, rows, cmp, txn, fn, auth, past>>

\* _execute: await conn.begin()
ExecBegin(p) ==
    /\ del[p].pc = "begin"
    /\ \/ /\ conn' = [conn EXCEPT ![p].st = "begun"]
          /\ del' = [del EXCEPT ![p].pc = "execute"]
       \/ /\ del' = [del EXCEPT ![p].pc = "rollback"]
          /\ conn' = [conn EXCEPT ![p].pooled = TRUE]
    /\ UNCHANGED <<sys_org, redis, res, hier, inv, topo, last, rows, cmp, txn, fn, auth, past>>

\* cursor.execute(sql, params) for the statement of the calling operation
execute(table, frame) ==
    IF frame.op = "query"
    THEN [ok |-> TRUE, rowcount |-> 0, write |-> Write("flag", {}, 0)]
    ELSE IF frame.op = "delete"
    THEN LET r == delete_sql(table, frame.ids, frame.current_org_id,
                             frame.allowed_orgs, frame.physical)
         IN [ok |-> TRUE, rowcount |-> r.rowcount, write |-> r.write]
    ELSE LET r == statement(table, frame.operations[frame.i])
         IN [ok |-> r.ok, rowcount |-> Cardinality(r.write.ids), write |-> r.write]

\* _execute: await cursor.execute(sql, params); result = cursor.rowcount.
\* For a read the rows are fetched and `return True, result` leaves the
\* async with: neither commit nor rollback is called.
ExecStatement(p) ==
    /\ del[p].pc = "execute"
    /\ \/ LET r == execute(apply_all(rows, conn[p].writes), del[p])
          IN /\ r.ok
             /\ IF del[p].op = "query"
                THEN /\ conn' = [conn EXCEPT ![p].pooled = TRUE]
                     /\ del' = [del EXCEPT ![p].pc = "check", ![p].sent = TRUE,
                                           ![p].success = TRUE]
                ELSE /\ conn' = [conn EXCEPT ![p].writes = Append(@, r.write)]
                     /\ del' = [del EXCEPT ![p].pc = "commit", ![p].sent = TRUE,
                                           ![p].affected_rows = r.rowcount]
       \/ /\ del' = [del EXCEPT ![p].pc = "rollback", ![p].sent = TRUE]
          /\ conn' = [conn EXCEPT ![p].pooled = TRUE]
    /\ UNCHANGED <<sys_org, redis, res, hier, inv, topo, last, rows, cmp, txn, fn, auth, past>>

\* _execute: await conn.commit(); return True, result
\* (the connection goes back to the pool on leaving the async with)
ExecCommit(p) ==
    /\ del[p].pc = "commit"
    /\ \/ /\ rows' = commit(rows, conn[p].writes)
          /\ conn' = [conn EXCEPT ![p] = NoConn]
          /\ del' = [del EXCEPT ![p].pc = "check", ![p].success = TRUE]
       \/ /\ del' = [del EXCEPT ![p].pc = "rollback"]
          /\ conn' = [conn EXCEPT ![p].pooled = TRUE]
          /\ UNCHANGED rows
    /\ UNCHANGED <<sys_org, redis, res, hier, inv, topo, last, cmp, txn, fn, auth, past>>

\* _execute: except Exception: if conn: await conn.rollback();
\* return False, str(e).  The connection was given back to the pool before
\* the handler runs; the rollback succeeds, or raises and leaves delete.
ExecRollback(p) ==
    /\ del[p].pc = "rollback"
    /\ conn' = [conn EXCEPT ![p] = NoConn]
    /\ \/ del' = [del EXCEPT ![p].pc = "check", ![p].success = FALSE]
       \/ del' = [del EXCEPT ![p].pc = "done", ![p].err = "StoreError"]
    /\ UNCHANGED <<sys_org, redis, res, hier, inv, topo, last, rows, cmp, txn, fn, auth, past>>

missing_count(ids, affected_rows) == Len(ids) - affected_rows

\* if not success: raise RuntimeError; if affected_rows != len(ids):
\* raise HTTPException(401, f"无权限删除{missing_count}条数据")
DeleteCheck(p) ==
    /\ del[p].pc = "check"
    /\ del[p].op = "delete"
    /\ del' = [del EXCEPT
                 ![p].pc = "done",
                 ![p].err = IF ~del[p].success THEN "RuntimeError"
                            ELSE IF del[p].affected_rows # Len(del[p].ids)
                            THEN "PartialAuthorization" ELSE "none",
                 ![p].missing_count =
                     IF del[p].success /\ del[p].affected_rows # Len(del[p].ids)
                     THEN missing_count(del[p].ids, del[p].affected_rows) ELSE 0]
    /\ UNCHANGED <<sys_org, redis, res, hier, inv, topo, last, rows, conn, cmp, txn, fn, auth, past>>

DeleteReturn(p) ==
    /\ del[p].pc = "done"
    /\ del' = [del EXCEPT ![p] = IdleDel]
    /\ UNCHANGED <<sys_org, redis, res, hier, inv, topo, last, rows, conn, cmp, txn, fn, auth, past>>

\* ------------------------- AsyncExecutor.update, insert, batch_operation
\* update(update_sql, params) / insert(insert_sql, params): one statement
WriteCall(p, operation) ==
    /\ Idle(p)
    /\ del' = [del EXCEPT ![p] =
                 [IdleDel EXCEPT !.pc = "acquire", !.op = operation.op_type,
                                 !.operations = <<operation>>, !.i = 1,
                                 !.before = rows]]
    /\ UNCHANGED <<sys_org, redis, res, hier, inv, topo, last, rows, conn, cmp, txn, fn, auth, past>>

\* fetch_total / fetch_one / fetch_all(query_sql, params): one read
FetchCall(p) ==
    /\ Idle(p)
    /\ del' = [del EXCEPT ![p] =
                 [IdleDel EXCEPT !.pc = "acquire", !.op = "query", !.before = rows]]
    /\ UNCHANGED <<sys_org, redis, res, hier, inv, topo, last, rows, conn, cmp, txn, fn, auth, past>>

\* return result if success else 0 / None / []
FetchCheck(p) ==
    /\ del[p].pc = "check"
    /\ del[p].op = "query"
    /\ del' = [del EXCEPT ![p].pc = "done", ![p].failed = ~del[p].success]
    /\ UNCHANGED <<sys_org, redis, res, hier, inv, topo, last, rows, conn, cmp, txn, fn, auth, past>>

\* success, result = await self._execute(...); return result if success else 0
WriteCheck(p) ==
    /\ del[p].pc = "check"
    /\ del[p].op \in {"update", "insert"}
    /\ del' = [del EXCEPT ![p].pc = "done",
                          ![p].failed = ~del[p].success,
                          ![p].result = IF del[p].success THEN del[p].affected_rows
                                        ELSE 0]
    /\ UNCHANGED <<sys_org, redis, res, hier, inv, topo, last, rows, conn, cmp, txn, fn, auth, past>>

\* batch_operation(sql, params_list, operation_type): total = 0
BatchCall(p, operations) ==
    /\ Idle(p)
    /\ del' = [del EXCEPT ![p] =
                 [IdleDel EXCEPT !.pc = IF operations = <<>> THEN "done" ELSE "acquire",
                                 !.op = "batch", !.operations = operations,
                                 !.i = 1, !.before = rows]]
    /\ UNCHANGED <<sys_org, redis, res, hier, inv, topo, last, rows, conn, cmp, txn, fn, auth, past>>

\* for params in params_list: success, result = await self._execute(...)
\*     if success: total += result
\* return total
BatchCheck(p) ==
    /\ del[p].pc = "check"
    /\ del[p].op = "batch"
    /\ del' = [del EXCEPT
                 ![p].pc = IF del[p].i < Len(del[p].operations) THEN "acquire" ELSE "done",
                 ![p].i = @ + 1,
                 ![p].failed = @ \/ ~del[p].success,
                 ![p].result = IF del[p].success THEN @ + del[p].affected_rows ELSE @]
    /\ UNCHANGED <<sys_org, redis, res, hier, inv, topo, last, rows, conn, cmp, txn, fn, auth, past>>

\* the hierarchies the mutations run against: the caller's organization with
\* two descendants, with one, and without a row of its own
DeleteTables ==
    {InitTable, {r \in InitTable : r.id # 3}, {r \in InitTable : r.id # 1}}

RowTables == [RowIds -> {NoRow, Row(2, 0), Row(3, 0), Row(2, 1)}]

IdLists == UNION {[1..n -> RowIds] : n \in 0..MaxIds}

InitDelete ==
    /\ sys_org \in DeleteTables
    /\ redis = [k \in Keys |-> NoKey]
    /\ res = [p \in Procs |-> IdleRes]
    /\ hier = [p \in Procs |-> IdleHier]
    /\ inv = NoInv
    /\ topo = 0
    /\ last = [o \in CallOrgs |-> NoCall]
    /\ rows \in RowTables
    /\ conn = [p \in Procs |-> NoConn]
    /\ cmp = [p \in Procs |-> IdleCmp]
    /\ del = [p \in Procs |-> IdleDel]
    /\ txn = [p \in Procs |-> IdleTxn]
    /\ fn = NoFn
    /\ auth = NoAuth
    /\ past = {Descendants(sys_org)}

NextDelete ==
    \/ \E p \in SeqProcs :
          /\ Alone(p) /\ Idle(p)
          /\ \E ids \in IdLists, o \in {NoOrg} \cup {Org(c) : c \in CallOrgs},
                physical \in BOOLEAN :
                  DeleteCall(p, ids, o, physical)
    \/ \E p \in Procs : Smembers(p)
    \/ \E p \in Procs : Query(p)
    \/ \E p \in Procs : Sadd(p)
    \/ \E p \in Procs : Expire(p)
    \/ \E p \in Procs : DeleteResume(p)
    \/ \E p \in Procs : ExecAcquire(p)
    \/ \E p \in Procs : ExecBegin(p)
    \/ \E p \in Procs : ExecStatement(p)
    \/ \E p \in Procs : ExecCommit(p)
    \/ \E p \in Procs : ExecRollback(p)
    \/ \E p \in Procs : DeleteCheck(p)
    \/ \E p \in Procs : DeleteReturn(p)

SpecDelete == InitDelete /\ [][NextDelete]_vars

\* ------------------------------------------------- AsyncExecutor.transaction
TxCall(p, operations) ==
    /\ Idle(p)
    /\ txn' = [txn EXCEPT ![p] =
                 [IdleTxn EXCEPT !.pc = "acquire", !.operations = operations,
                                 !.before = rows]]
    /\ UNCHANGED <<sys_org, redis, res, hier, inv, topo, last, rows, conn, cmp, del, fn, auth, past>>

\* pool = mysql_manager.mysql_pools[self.db_name]
\* async with pool.acquire() as raw_conn: conn = AsyncConnectionWrapper(raw_conn)
\* When this raises, the handler runs with the name conn never bound.
TxAcquire(p) ==
    /\ txn[p].pc = "acquire"
    /\ \/ /\ conn' = [conn EXCEPT ![p] = [st |-> "acquired", writes |-> <<>>, pooled |-> FALSE]]
          /\ txn' = [txn EXCEPT ![p].pc = "begin"]
       \/ /\ txn' = [txn EXCEPT ![p].pc = "except"]
          /\ UNCHANGED conn
    /\ UNCHANGED <<sys_org, redis, res, hier, inv, topo, last, rows, cmp, del, fn, auth, past>>

\* await conn.begin()
TxBegin(p) ==
    /\ txn[p].pc = "begin"
    /\ \/ /\ conn' = [conn EXCEPT ![p].st = "begun"]
          /\ txn' = [txn EXCEPT ![p].pc = "loop", ![p].i = 1]
       \/ /\ txn' = [txn EXCEPT ![p].pc = "except"]
          /\ conn' = [conn EXCEPT ![p].pooled = TRUE]
    /\ UNCHANGED <<sys_org, redis, res, hier, inv, topo, last, rows, cmp, del, fn, auth, past>>

\* for op_type, sql, params in operations: await cur.execute(sql, params)
TxStatement(p) ==
    /\ txn[p].pc = "loop"
    /\ txn[p].i <= Len(txn[p].operations)
    /\ LET r == statement(apply_all(rows, conn[p].writes),
                          txn[p].operations[txn[p].i])
       IN \/ /\ r.ok
             /\ conn' = [conn EXCEPT ![p].writes = Append(@, r.write)]
             /\ txn' = [txn EXCEPT ![p].i = @ + 1]
          \/ /\ txn' = [txn EXCEPT ![p].pc = "except"]
             /\ conn' = [conn EXCEPT ![p].pooled = TRUE]
    /\ UNCHANGED <<sys_org, redis, res, hier, inv, topo, last, rows, cmp, del, fn, auth, past>>

\* await conn.commit(); return True
TxCommit(p) ==
    /\ txn[p].pc = "loop"
    /\ txn[p].i > Len(txn[p].operations)
    /\ \/ /\ rows' = commit(rows, conn[p].writes)
          /\ conn' = [conn EXCEPT ![p] = NoConn]
          /\ txn' = [txn EXCEPT ![p].pc = "done", ![p].result = "True"]
       \/ /\ txn' = [txn EXCEPT ![p].pc = "except"]
          /\ conn' = [conn EXCEPT ![p].pooled = TRUE]
          /\ UNCHANGED rows
    /\ UNCHANGED <<sys_org, redis, res, hier, inv, topo, last, cmp, del, fn, auth, past>>

\* except Exception as e: await conn.rollback(); return False
\* conn is unbound when the connection was never acquired: the handler raises
\* UnboundLocalError.  Otherwise the connection was given back to the pool
\* before the handler runs; the rollback succeeds, or raises and leaves
\* transaction.
TxExcept(p) ==
    /\ txn[p].pc = "except"
    /\ conn' = [conn EXCEPT ![p] = NoConn]
    /\ IF conn[p].st = "none"
       THEN txn' = [txn EXCEPT ![p].pc = "done", ![p].result = "UnboundLocalError"]
       ELSE \/ txn' = [txn EXCEPT ![p].pc = "done", ![p].result = "False"]
            \/ txn' = [txn EXCEPT ![p].pc = "done", ![p].result = "StoreError"]
    /\ UNCHANGED <<sys_org, redis, res, hier, inv, topo, last, rows, cmp, del, fn, auth, past>>

TxReturn(p) ==
    /\ txn[p].pc = "done"
    /\ txn' = [txn EXCEPT ![p] = IdleTxn]
    /\ UNCHANGED <<sys_org, redis, res, hier, inv, topo, last, rows, conn, cmp, del, fn, auth, past>>

Operations ==
    {Operation("update", i, 0) : i \in RowIds}
      \cup {Operation("delete", i, 0) : i \in RowIds}
      \cup {Operation("insert", i, 2) : i \in RowIds}

OperationLists == UNION {[1..n -> Operations] : n \in 0..MaxOps}

NextTx ==
    \/ \E p \in SeqProcs :
          /\ Alone(p) /\ Idle(p)
          /\ \E operations \in OperationLists : TxCall(p, operations)
    \/ \E p \in Procs : TxAcquire(p)
    \/ \E p \in Procs : TxBegin(p)
    \/ \E p \in Procs : TxStatement(p)
    \/ \E p \in Procs : TxCommit(p)
    \/ \E p \in Procs : TxExcept(p)
    \/ \E p \in Procs : TxReturn(p)

SpecTx == InitDelete /\ [][NextTx]_vars

\* one parameterised statement, executed once per item of params_list
BatchLists ==
    {ops \in UNION {[1..n -> {"update", "delete", "insert"} \X RowIds] : n \in 0..MaxOps} :
        \A k \in 1..Len(ops) : ops[k][1] = ops[1][1]}

NextWrite ==
    \/ \E p \in SeqProcs :
          /\ Alone(p) /\ Idle(p)
          /\ \E operation \in {o \in Operations : o.op_type \in {"update", "insert"}} :
                WriteCall(p, operation)
    \/ \E p \in SeqProcs :
          /\ Alone(p) /\ Idle(p)
          /\ \E ops \in BatchLists :
                BatchCall(p, [k \in 1..Len(ops) |-> Operation(ops[k][1], ops[k][2], 2)])
    \/ \E p \in Procs : ExecAcquire(p)
    \/ \E p \in Procs : ExecBegin(p)
    \/ \E p \in Procs : ExecStatement(p)
    \/ \E p \in Procs : ExecCommit(p)
    \/ \E p \in Procs : ExecRollback(p)
    \/ \E p \in Procs : WriteCheck(p)
    \/ \E p \in Procs : BatchCheck(p)
    \/ \E p \in Procs : DeleteReturn(p)

SpecWrite == InitDelete /\ [][NextWrite]_vars

\* reads, writes and transactions of one request after another
NextExec ==
    \/ \E p \in SeqProcs : Alone(p) /\ Idle(p) /\ FetchCall(p)
    \/ \E p \in SeqProcs :
          /\ Alone(p) /\ Idle(p)
          /\ \E operation \in {o \in Operations : o.op_type \in {"update", "insert"}} :
                WriteCall(p, operation)
    \/ \E p \in SeqProcs :
          /\ Alone(p) /\ Idle(p)
          /\ \E operations \in OperationLists : TxCall(p, operations)
    \/ \E p \in Procs : ExecAcquire(p)
    \/ \E p \in Procs : ExecBegin(p)
    \/ \E p \in Procs : ExecStatement(p)
    \/ \E p \in Procs : ExecCommit(p)
    \/ \E p \in Procs : ExecRollback(p)
    \/ \E p \in Procs : FetchCheck(p)
    \/ \E p \in Procs : WriteCheck(p)
    \/ \E p \in Procs : DeleteReturn(p)
    \/ \E p \in Procs : TxAcquire(p)
    \/ \E p \in Procs : TxBegin(p)
    \/ \E p \in Procs : TxStatement(p)
    \/ \E p \in Procs : TxCommit(p)
    \/ \E p \in Procs : TxExcept(p)
    \/ \E p \in Procs : TxReturn(p)

SpecExec == InitDelete /\ [][NextExec]_vars

\* ------------------------------------------- camel_to_snake, snake_to_camel
NameChars == {"a", "b", "1", "_", "A", "B"}
Names == UNION {[1..n -> NameChars] : n \in 0..MaxName}

\* no request in flight: where the functions without side effects are called
Quiet ==
    /\ sys_org = InitTable
    /\ redis = [k \in Keys |-> NoKey]
    /\ res = [p \in Procs |-> IdleRes]
    /\ hier = [p \in Procs |-> IdleHier]
    /\ inv = NoInv
    /\ topo = 0
    /\ last = [o \in CallOrgs |-> NoCall]
    /\ rows = InitRows
    /\ conn = [p \in Procs |-> NoConn]
    /\ cmp = [p \in Procs |-> IdleCmp]
    /\ del = [p \in Procs |-> IdleDel]
    /\ txn = [p \in Procs |-> IdleTxn]
    /\ auth = NoAuth
    /\ past = {Descendants(sys_org)}

Given(args) == [name |-> "none", arg |-> args, out |-> <<>>]

InitNaming == Quiet /\ fn \in {Given(s) : s \in Names}

CamelToSnake ==
    /\ fn.name = "none"
    /\ fn' = [fn EXCEPT !.name = "camel_to_snake", !.out = camel_to_snake(fn.arg)]
    /\ UNCHANGED <<sys_org, redis, res, hier, inv, topo, last, rows, conn, cmp, del, txn, auth, past>>

SnakeToCamel ==
    /\ fn.name = "none"
    /\ fn' = [fn EXCEPT !.name = "snake_to_camel", !.out = snake_to_camel(fn.arg)]
    /\ UNCHANGED <<sys_org, redis, res, hier, inv, topo, last, rows, conn, cmp, del, txn, auth, past>>

NextNaming == CamelToSnake \/ SnakeToCamel

SpecNaming == InitNaming /\ [][NextNaming]_vars

\* ------------------------------------------------------------ get_sorter_sql
k_createTimes == <<"c", "r", "e", "a", "t", "e", "T", "i", "m", "e", "s">>

\* qualified_field: f"{table_alias}.{snake_field}" when the field is mapped
sort_field(valid_columns_with_alias, snake_field) ==
    IF snake_field \in DOMAIN valid_columns_with_alias
    THEN valid_columns_with_alias[snake_field] \o <<".">> \o snake_field
    ELSE snake_field

\* for field in list(ordering): if "create_time" in field: ordering.remove(field)
without_create_time(ordering) ==
    SelectSeq(ordering, LAMBDA field : ~Contains(field, k_create_time))

\* the loop over sorter.items()
RECURSIVE sort_marks(_, _, _)
sort_marks(sorter, valid_columns_with_alias, ordering) ==
    IF sorter = <<>> THEN ordering
    ELSE LET snake_field == camel_to_snake(Head(sorter).field)
             qualified_field == sort_field(valid_columns_with_alias, snake_field)
             kept == IF snake_field = k_create_time
                     THEN without_create_time(ordering) ELSE ordering
             marked == IF Head(sorter).direction = 1
                       THEN Append(kept, qualified_field)
                       ELSE IF Head(sorter).direction = -1
                       THEN Append(kept, <<"-">> \o qualified_field)
                       ELSE kept
         IN sort_marks(Tail(sorter), valid_columns_with_alias, marked)

\* if not any("create_time" in field for field in ordering): append the default
with_default(valid_columns_with_alias, ordering) ==
    IF \E i \in 1..Len(ordering) : Contains(ordering[i], k_create_time)
    THEN ordering
    ELSE Append(ordering, <<"-">> \o sort_field(valid_columns_with_alias, k_create_time))

\* f"{column} DESC" if field.startswith("-") else f"{field} ASC"
order_clause(field) ==
    IF field # <<>> /\ Head(field) = "-"
    THEN [column |-> Tail(field), dir |-> "DESC"]
    ELSE [column |-> field, dir |-> "ASC"]

get_sorter_sql(sorter, valid_columns_with_alias) ==
    LET ordering == with_default(valid_columns_with_alias,
                                 sort_marks(sorter, valid_columns_with_alias, <<>>))
    IN [i \in 1..Len(ordering) |-> order_clause(ordering[i])]

SortFields == {k_createTime, k_create_time, k_name, k_createTimes}

\* body.sorter: a dict, in insertion order
Sorters ==
    {st \in UNION {[1..n -> [field : SortFields, direction : {1, -1, 0}]] :
                      n \in 0..MaxSort} :
        \A i, j \in 1..Len(st) : i # j => st[i].field # st[j].field}

AliasMaps == {<<>>, (k_create_time :> alias_f)}

InitSorter ==
    Quiet /\ fn \in {Given([sorter |-> st, valid_columns_with_alias |-> m]) :
                        st \in Sorters, m \in AliasMaps}

GetSorterSql ==
    /\ fn.name = "none"
    /\ fn' = [fn EXCEPT !.name = "get_sorter_sql",
                        !.out = get_sorter_sql(fn.arg.sorter,
                                               fn.arg.valid_columns_with_alias)]
    /\ UNCHANGED <<sys_org, redis, res, hier, inv, topo, last, rows, conn, cmp, del, txn, auth, past>>

NextSorter == GetSorterSql

SpecSorter == InitSorter /\ [][NextSorter]_vars

\* ------------------------------------------------------ find: pagination
\* page: Optional[int] = Field(1, ge=-1); limit: Optional[int] = Field(10, ge=-1)
NoneValue == [is_none |-> TRUE, v |-> 0]
IntValue(v) == [is_none |-> FALSE, v |-> v]

NoLimit == [clause |-> "none", limit |-> 0, offset |-> 0]

\* an offset counted from page 0
limit_offset_from_zero(page, limit) ==
    IF ~limit.is_none /\ limit.v = -1 THEN NoLimit
    ELSE IF limit.is_none \/ page.is_none
    THEN [clause |-> "TypeError", limit |-> 0, offset |-> 0]
    ELSE [clause |-> "LIMIT", limit |-> limit.v, offset |-> page.v * limit.v]

\* if body.limit != -1:
\*     base_query += f" LIMIT {body.limit} OFFSET {(body.page-1)*body.limit}"
\* None in the arithmetic raises TypeError.
limit_offset(page, limit) ==
    IF ~limit.is_none /\ limit.v = -1 THEN NoLimit
    ELSE IF limit.is_none \/ page.is_none
    THEN [clause |-> "TypeError", limit |-> 0, offset |-> 0]
    ELSE [clause |-> "LIMIT", limit |-> limit.v, offset |-> (page.v - 1) * limit.v]

Pages == {NoneValue} \cup {IntValue(v) : v \in -1..MaxPage}
Limits == {NoneValue} \cup {IntValue(v) : v \in -1..MaxLimit}

InitPage ==
    Quiet /\ fn \in {Given([page |-> pg, limit |-> lm]) : pg \in Pages, lm \in Limits}

FindPage ==
    /\ fn.name = "none"
    /\ fn' = [fn EXCEPT !.name = "find",
                        !.out = limit_offset(fn.arg.page, fn.arg.limit)]
    /\ UNCHANGED <<sys_org, redis, res, hier, inv, topo, last, rows, conn, cmp, del, txn, auth, past>>

NextPage == FindPage

SpecPage == InitPage /\ [][NextPage]_vars

\* ----------------------------------- statements and their parameter lists
\* AsyncExecutor.delete builds its statement from pieces; each %s of the text
\* is named by the piece that wrote it:
\*   UPDATE {table} SET {delete_field} = %s WHERE {id_field} IN (%s, ...)
\*   DELETE FROM {table} WHERE {id_field} IN (%s, ...)
\*   ... AND {org_field} IN (%s, ...)       when current_org_id is not None
delete_placeholders(ids, current_org_id, allowed_orgs, physical) ==
    (IF physical THEN <<>> ELSE <<"delete_value">>)
        \o [i \in 1..Len(ids) |-> "id"]
        \o (IF current_org_id.present
            THEN [i \in 1..Len(allowed_orgs) |-> "org"] ELSE <<>>)

BoundValue(k, v) == [k |-> k, v |-> v]

\* params = tuple(ids); params += tuple(allowed_orgs);
\* params = (delete_value,) + params          (logical delete)
delete_params(ids, current_org_id, allowed_orgs, physical, delete_value) ==
    (IF physical THEN <<>> ELSE <<BoundValue("delete_value", delete_value)>>)
        \o [i \in 1..Len(ids) |-> BoundValue("id", ids[i])]
        \o (IF current_org_id.present
            THEN [i \in 1..Len(allowed_orgs) |-> BoundValue("org", allowed_orgs[i])]
            ELSE <<>>)

\* the arguments of one call: of _generate_where_clause after the scope is
\* resolved, or of delete after its scope is resolved and found non-empty
\* The request models allow extra fields (extra="allow"), so a body also
\* carries keys that are no column names, such as the text "%s".
k_percent_s == <<"%", "s">>

Item(key, value) == [key |-> key, value |-> value]

AnyBodies ==
    Bodies \cup {<<Item(k_percent_s, VStr("x"))>>,
                 <<Item(k_name, VStr("y")), Item(k_percent_s, VStr("x"))>>,
                 <<Item(k_percent_s, VStr("x")), Item(k_name, VStr("y"))>>}

WhereArgs ==
    {[f |-> "where", body |-> body, kw |-> kw, ep |-> ep, allowed_org_ids |-> a,
      ids |-> <<>>, current_org_id |-> NoOrg, allowed_orgs |-> <<>>,
      physical |-> FALSE] :
        body \in AnyBodies, kw \in Keywords, ep \in Endpoints, a \in AllowedArgs}

DeleteArgs ==
    {[f |-> "delete", body |-> <<>>, kw |-> NoKeywords, ep |-> NoEndpoint,
      allowed_org_ids |-> AllowedNone,
      ids |-> ids, current_org_id |-> o, allowed_orgs |-> SetToSeq(orgs),
      physical |-> physical] :
        ids \in IdLists \ {<<>>}, o \in {NoOrg} \cup {Org(c) : c \in CallOrgs},
        orgs \in (SUBSET OrgIds) \ {{}}, physical \in BOOLEAN}

InitStatement == Quiet /\ fn \in {Given(a) : a \in WhereArgs \cup DeleteArgs}

GenerateWhereClause ==
    /\ fn.name = "none"
    /\ fn.arg.f = "where"
    /\ fn' = [fn EXCEPT !.name = "_generate_where_clause",
                        !.out = generate_where_clause(fn.arg.body, fn.arg.kw,
                                    fn.arg.ep, fn.arg.allowed_org_ids)]
    /\ UNCHANGED <<sys_org, redis, res, hier, inv, topo, last, rows, conn, cmp, del, txn, auth, past>>

DeleteStatement ==
    /\ fn.name = "none"
    /\ fn.arg.f = "delete"
    /\ fn' = [fn EXCEPT !.name = "delete",
                        !.out = [conds |-> delete_placeholders(fn.arg.ids,
                                               fn.arg.current_org_id,
                                               fn.arg.allowed_orgs, fn.arg.physical),
                                 params |-> delete_params(fn.arg.ids,
                                               fn.arg.current_org_id,
                                               fn.arg.allowed_orgs, fn.arg.physical,
                                               1)]]
    /\ UNCHANGED <<sys_org, redis, res, hier, inv, topo, last, rows, conn, cmp, del, txn, auth, past>>

NextStatement == GenerateWhereClause \/ DeleteStatement

SpecStatement == InitStatement /\ [][NextStatement]_vars

\* ------------------------------------------- get_current_user, login, logout
\* decode_token: a token that fails verification raises 401
decode_token(token) == IF token = BadToken THEN 401 ELSE 200

\* get_current_user: 401 without a token, 401 when the token does not verify,
\* then one hmget of the profile record; 401 when its "id" field is None,
\* otherwise the identity is built from the record.  An error of the cache
\* is not handled (500).
get_current_user(profile, token, cache_fails) ==
    IF token = NoToken THEN [status |-> 401, user |-> 0]
    ELSE IF decode_token(token) # 200 THEN [status |-> 401, user |-> 0]
    ELSE IF cache_fails THEN [status |-> 500, user |-> 0]
    ELSE IF ~profile[token] THEN [status |-> 401, user |-> 0]
    ELSE [status |-> 200, user |-> token]

\* login of user u with a valid password: a token is generated and the task
\* _async_cache_user is added, to run after the response.
Login(u) ==
    /\ auth.logins < MaxLogin
    /\ auth' = [auth EXCEPT !.issued[u] = TRUE,
                            !.tasks[u] = @ + 1,
                            !.logins = @ + 1]
    /\ UNCHANGED <<sys_org, redis, res, hier, inv, topo, last, rows, conn, cmp, del, txn, fn, past>>

\* _async_cache_user: hmset and expire in one pipeline; any exception is
\* logged and dropped.
CacheUser(u) ==
    /\ auth.tasks[u] > 0
    /\ \E cache_fails \in BOOLEAN :
         auth' = [auth EXCEPT !.tasks[u] = @ - 1,
                              !.profile[u] = IF cache_fails THEN @ ELSE TRUE,
                              !.out[u] = IF cache_fails THEN @ ELSE FALSE]
    /\ UNCHANGED <<sys_org, redis, res, hier, inv, topo, last, rows, conn, cmp, del, txn, fn, past>>

\* the expiry set by _async_cache_user lapses
ProfileExpires(u) ==
    /\ auth.profile[u]
    /\ auth' = [auth EXCEPT !.profile[u] = FALSE]
    /\ UNCHANGED <<sys_org, redis, res, hier, inv, topo, last, rows, conn, cmp, del, txn, fn, past>>

\* A request to /isAuth or /logout: Depends(get_current_user) runs first.
AuthRequest(p, route, token) ==
    /\ auth.req[p].pc = "idle"
    /\ IF token \in AuthUsers THEN auth.issued[token] ELSE TRUE
    /\ \E cache_fails \in BOOLEAN :
         LET r == get_current_user(auth.profile, token, cache_fails)
         IN auth' = [auth EXCEPT !.req[p] =
                [pc |-> IF r.status = 200 /\ route = "logout" THEN "delete" ELSE "done",
                 route |-> route, token |-> token,
                 status |-> r.status, user |-> r.user,
                 accepted |-> r.status = 200,
                 hit |-> r.status = 200 /\ auth.profile[r.user],
                 stale |-> r.status = 200 /\ auth.out[r.user],
                 swallowed |-> FALSE]]
    /\ UNCHANGED <<sys_org, redis, res, hier, inv, topo, last, rows, conn, cmp, del, txn, fn, past>>

\* logout: delete the record; an exception is logged and the response is
\* the same 200 "退出登录成功".
LogoutDelete(p) ==
    /\ auth.req[p].pc = "delete"
    /\ \E cache_fails \in BOOLEAN :
         auth' = [auth EXCEPT !.profile[auth.req[p].user] =
                                  IF cache_fails THEN @ ELSE FALSE,
                              !.out[auth.req[p].user] = TRUE,
                              !.req[p].pc = "done",
                              !.req[p].status = 200,
                              !.req[p].swallowed = cache_fails]
    /\ UNCHANGED <<sys_org, redis, res, hier, inv, topo, last, rows, conn, cmp, del, txn, fn, past>>

AuthReturn(p) ==
    /\ auth.req[p].pc = "done"
    /\ auth' = [auth EXCEPT !.req[p] = IdleReq]
    /\ UNCHANGED <<sys_org, redis, res, hier, inv, topo, last, rows, conn, cmp, del, txn, fn, past>>

Routes == {"isAuth", "logout"}

NextAuth ==
    \/ \E u \in AuthUsers : Login(u)
    \/ \E u \in AuthUsers : CacheUser(u)
    \/ \E u \in AuthUsers : ProfileExpires(u)
    \/ \E p \in Procs, route \in Routes, token \in {NoToken, BadToken} \cup AuthUsers :
         AuthRequest(p, route, token)
    \/ \E p \in Procs : LogoutDelete(p)
    \/ \E p \in Procs : AuthReturn(p)

SpecAuth == Init /\ [][NextAuth]_vars

\* ============================================================ query compiler
Compiled(p) == cmp[p].pc = "done"

AccessConds(sql) == {i \in 1..Len(sql.conds) : sql.conds[i].op = "IN"}
OrgParamsAt(sql, idx) == {sql.params[i].org : i \in idx}

\* the organizations whose rows a compiled query can return
AccessibleOrgs(sql) ==
    IF AccessConds(sql) = {} THEN 0..MaxOrg
    ELSE OrgParamsAt(sql, {i \in 1..Len(sql.params) : sql.params[i].k = "org"})

C2_UnrestrictedOnlyForRoot ==
    \A p \in Procs :
        (Compiled(p) /\ AccessConds(cmp[p].sql) = {}) =>
            cmp[p].current_user.present /\ cmp[p].current_user.org_id = 0

\* C2 amended: a compiled query has no organization access clause only when
\* the explicit bypass allowed_org_ids=False is passed, or when no scope is
\* passed (None) and the caller's home organization id is 0 or no caller
\* identity is given; every other call yields the access clause.
C2_UnrestrictedOnlyRootOrBypass ==
    \A p \in Procs :
        (Compiled(p) /\ AccessConds(cmp[p].sql) = {}) =>
            \/ cmp[p].allowed_org_ids = AllowedFalse
            \/ /\ cmp[p].allowed_org_ids = AllowedNone
               /\ ~cmp[p].current_user.present \/ cmp[p].current_user.org_id = 0

C2_Witness ==
    \E p \in Procs :
        /\ Compiled(p) /\ AccessConds(cmp[p].sql) = {}
        /\ cmp[p].allowed_org_ids = AllowedFalse
        /\ cmp[p].current_user = User(1)

\* C3: with an explicitly supplied empty organization list (Denied) the
\* compiled query can return no row: its scope is never widened.
C3_DeniedReturnsNothing ==
    \A p \in Procs :
        (Compiled(p) /\ cmp[p].allowed_org_ids = AllowedList(<<>>)) =>
            AccessibleOrgs(cmp[p].sql) = {}

\* the SQL text of a compiled query: everything but the bound parameters
SqlText(sql) == [glue |-> sql.glue, conds |-> sql.conds]

RECURSIVE Placeholders(_)
Placeholders(conds) ==
    IF conds = <<>> THEN 0 ELSE Head(conds).n + Placeholders(Tail(conds))

SameShape(v, w) ==
    /\ v.kind = w.kind
    /\ Len(v.items) = Len(w.items)
    /\ IsBlank(v) <=> IsBlank(w)

SameShapeValues(v) == {w \in BodyValues : SameShape(v, w)}

\* the requests with the same field names and the same value shapes
RECURSIVE SameShapeBodies(_)
SameShapeBodies(body) ==
    IF body = <<>> THEN {<<>>}
    ELSE {<<[key |-> Head(body).key, value |-> w]>> \o t :
             w \in SameShapeValues(Head(body).value),
             t \in SameShapeBodies(Tail(body))}

SameShapeKeywords(kw) ==
    {k \in Keywords : k.present = kw.present /\ SameShape(k.value, kw.value)}

\* C4: keyword and filter values go to the parameter list and never into the
\* SQL text: requests with the same field names and value shapes compile to
\* the same SQL text, which holds no literal and one placeholder per parameter.
C4_ValuesOnlyInParams ==
    \A p \in Procs :
        Compiled(p) =>
            /\ \A body \in SameShapeBodies(cmp[p].body), kw \in SameShapeKeywords(cmp[p].kw) :
                  SqlText(complete_sql(cmp[p].ep.base_has_where,
                             generate_where_clause(body, kw, cmp[p].ep, cmp[p].scope)))
                    = SqlText(cmp[p].sql)
            /\ \A i \in 1..Len(cmp[p].sql.conds) : cmp[p].sql.conds[i].lit = <<>>
            /\ Placeholders(cmp[p].sql.conds) = Len(cmp[p].sql.params)

C4_Witness ==
    \E p \in Procs :
        /\ Compiled(p)
        /\ Len(cmp[p].sql.conds) = 4
        /\ Cardinality(SameShapeBodies(cmp[p].body)) = 4
        /\ Cardinality(SameShapeKeywords(cmp[p].kw)) = 2

\* ================================================================= mutations
Deleted(p) == del[p].pc = "done"

\* the rows a delete request changes: requested, present, in the resolved
\* scope and, for a logical delete, not flagged yet
InScope(p) ==
    {i \in Range(del[p].ids) :
        /\ del[p].before[i].present
        /\ del[p].before[i].org_id \in del[p].allowed_orgs
        /\ del[p].physical \/ del[p].before[i].is_delete # 1}

\* C5: a delete with a caller organization whose statement affected k rows,
\* k < len(ids), fails with the partial-authorization error reporting
\* len(ids) - k, and the k rows in scope stay deleted (flagged, or removed by
\* a physical delete): the statement was committed and nothing else changed.
C5_PartialIsReportedAndKept ==
    \A p \in Procs :
        (/\ Deleted(p) /\ del[p].current_org_id.present
         /\ del[p].success /\ del[p].affected_rows < Len(del[p].ids)) =>
            /\ del[p].err = "PartialAuthorization"
            /\ del[p].affected_rows = Cardinality(InScope(p))
            /\ del[p].missing_count = Len(del[p].ids) - del[p].affected_rows
            /\ conn[p] = NoConn
            /\ \A i \in RowIds :
                  IF i \notin InScope(p) THEN rows[i] = del[p].before[i]
                  ELSE IF del[p].physical THEN ~rows[i].present
                  ELSE /\ rows[i].present /\ rows[i].is_delete = 1
                       /\ rows[i].org_id = del[p].before[i].org_id

C5_Witness ==
    \E p \in Procs :
        /\ Deleted(p) /\ del[p].current_org_id.present
        /\ del[p].err = "PartialAuthorization"
        /\ Len(del[p].ids) = 2 /\ del[p].ids[1] # del[p].ids[2]
        /\ del[p].affected_rows = 1 /\ del[p].missing_count = 1
        /\ ~del[p].physical
        /\ rows # del[p].before

\* C6: a delete with a caller organization whose descendant set is empty
\* fails with Unauthorized, no mutation statement is sent to the relational
\* store and no row of the target table is changed.
C6_EmptyScopeIsUnauthorized ==
    \A p \in Procs :
        /\ (del[p].resolved /\ del[p].allowed_orgs = {}) =>
              /\ Deleted(p) /\ del[p].err = "Unauthorized"
              /\ ~del[p].sent /\ conn[p] = NoConn
              /\ rows = del[p].before
        /\ (Deleted(p) /\ del[p].err = "Unauthorized") =>
              /\ del[p].resolved /\ del[p].allowed_orgs = {}
              /\ ReachableFrom(sys_org, del[p].current_org_id.id) = {}

C6_Witness ==
    \E p \in Procs :
        /\ Deleted(p) /\ del[p].err = "Unauthorized"
        /\ \E i \in Range(del[p].ids) : rows[i].present /\ rows[i].is_delete = 0

TxDone(p) == txn[p].pc = "done"

\* the writes of a list of statements executed in order
RECURSIVE Effect(_, _)
Effect(table, operations) ==
    IF operations = <<>> THEN table
    ELSE Effect(apply(table, statement(table, Head(operations)).write),
                Tail(operations))

\* C7: transaction is all-or-nothing: when it finishes, either every
\* statement is committed and True is returned, or none of the effects is
\* committed and False is returned; no exception leaves the call.
C7_AllOrNothingReported ==
    \A p \in Procs :
        TxDone(p) =>
            \/ /\ txn[p].result = "True"
               /\ rows = Effect(txn[p].before, txn[p].operations)
            \/ /\ txn[p].result = "False"
               /\ rows = txn[p].before

\* ===================================================== organization hierarchy
Returned(p) == res[p].pc = "done"

\* C8 as claimed: every set descendantIds returns contains orgId and equals
\* the set of nodes reachable from orgId in the organization table.
C8_AlwaysSelfAndReachable ==
    \A p \in Procs :
        Returned(p) =>
            /\ res[p].org \in res[p].org_set
            /\ res[p].org_set = ReachableFrom(sys_org, res[p].org) \cup {res[p].org}

\* C8 amended: a call answered from the relational store returns exactly the
\* nodes reachable from orgId in the table it queried, which contains orgId
\* iff orgId has a row (the set is empty otherwise); a call answered from the
\* cache returns the non-empty set stored under the key.
C8_QueriedSetIsReachable ==
    \A p \in Procs :
        Returned(p) =>
            /\ (res[p].usedDb /\ res[p].fresh) =>
                  /\ res[p].org_set = ReachableFrom(sys_org, res[p].org)
                  /\ (res[p].org \in res[p].org_set <=> HasRow(sys_org, res[p].org))
            /\ ~res[p].usedDb =>
                  /\ res[p].org_set # {}
                  /\ res[p].clean =>
                        res[p].org_set = smembers(redis, auth_org_ids_key(res[p].org))

C8_Witness ==
    \E p \in Procs :
        /\ Returned(p) /\ res[p].usedDb /\ res[p].fresh
        /\ Cardinality(res[p].org_set) = 3

\* C9 as claimed: the second of two calls in a row returns the same set and
\* is answered from the cache, also when the descendant set is empty.
C9_SecondCallFromCache ==
    \A p \in Procs :
        (Returned(p) /\ res[p].prev.valid) =>
            /\ res[p].org_set = res[p].prev.set
            /\ ~res[p].usedDb

\* C9 amended: the second of two calls in a row (no topology change, no
\* invalidation, no expiry and no other population of the key meanwhile)
\* returns the same set; it is answered from the cache when the first call
\* left its non-empty result in the cache, and it queries the relational
\* store again when the descendant set is empty (nothing is cached for it).
C9_SecondCallSameSet ==
    \A p \in Procs :
        (Returned(p) /\ res[p].prev.valid) =>
            /\ res[p].org_set = res[p].prev.set
            /\ res[p].prev.cached => ~res[p].usedDb
            /\ res[p].prev.set = {} => res[p].usedDb

C9_Witness ==
    \E p \in Procs :
        /\ Returned(p) /\ res[p].prev.valid /\ res[p].prev.cached
        /\ ~res[p].usedDb
        /\ Cardinality(res[p].org_set) > 1

\* C10 as claimed: when delete_organizations_cache completes successfully no
\* descendant-set entry and no ancestor-path entry is left in the cache.
C10_InvalidationClearsAll ==
    inv.result = "ok" => inv.left = {}

\* ============================================================== cache errors
\* C11: a cache-store error during descendantIds or ancestorPath never fails
\* the request: no call ends with an exception caused by the cache store.
C11_CacheErrorsNeverFail ==
    \A p \in Procs :
        /\ res[p].pc = "raised" => res[p].err # "RedisError"
        /\ hier[p].pc = "raised" => hier[p].cause # "cache"

\* C12: a relational-store error on the resolver's database path reaches the
\* caller as the retryable resolver error, from the query compiler and from
\* AsyncExecutor.delete alike, never as an authorization failure.
C12_StoreErrorIsResolverUnavailable ==
    \A p \in Procs :
        (Deleted(p) /\ del[p].resolver_err = "StoreError") =>
            del[p].err = "ResolverUnavailable"

\* ============================================================= ancestor path
PathDone(p) == hier[p].pc = "done"

ParentOf(tbl, x) == (CHOOSE r \in tbl : r.id = x).org_id

\* C13: the ids of an ancestor path start with 0 and go on, parent before
\* child, down to the queried organization; names lists the same
\* organizations in the same order, without the root.  The path starts at the
\* topmost ancestor whenever the chain has no more than DepthBound nodes.
C13_PathIsRootToLeaf ==
    \A p \in Procs :
        PathDone(p) =>
            LET ids == hier[p].ids
                names == hier[p].names
                n == Len(ids)
            IN /\ n >= 1 /\ ids[1] = 0
               /\ n = 1 <=> ~HasRow(sys_org, hier[p].org)
               /\ n > 1 => ids[n] = hier[p].org
               /\ \A i \in 2..n : HasRow(sys_org, ids[i])
               /\ \A i \in 2..(n - 1) : ParentOf(sys_org, ids[i + 1]) = ids[i]
               /\ (n > 1 /\ n <= DepthBound) =>
                     \/ ParentOf(sys_org, ids[2]) = 0
                     \/ ~HasRow(sys_org, ParentOf(sys_org, ids[2]))
               /\ Len(names) = n - 1
               /\ \A i \in 1..(n - 1) : names[i] = NameOf(ids[i + 1])

C13_Witness ==
    \E p \in Procs :
        /\ PathDone(p) /\ hier[p].usedDb
        /\ hier[p].org = 3
        /\ hier[p].ids = <<0, 1, 2, 3>>
        /\ hier[p].names = <<NameOf(1), NameOf(2), NameOf(3)>>

\* C14: an ancestor path call ends for every organization table (parent
\* cycles, missing parents and chains longer than the bound included), and
\* its result holds at most 10 organizations after the leading 0.
C14_PathIsBounded ==
    /\ [](\A p \in Procs :
            hier[p].pc \in {"setex", "done"} =>
                Len(hier[p].ids) <= 10 + 1 /\ Len(hier[p].names) <= 10)
    /\ \A p \in Procs :
          (hier[p].pc \in {"get", "query", "setex"}) ~> (hier[p].pc \in {"done", "raised"})

C14_Witness ==
    \E p \in Procs :
        /\ PathDone(p) /\ hier[p].usedDb
        /\ Len(hier[p].ids) = 10 + 1
        /\ \E i, j \in 2..Len(hier[p].ids) : i # j /\ hier[p].ids[i] = hier[p].ids[j]

\* ==================================================================== naming
IsLowerOrDigit(c) == c # "_" /\ ~isupper(c)

\* lowercase-and-digit words joined by internal capitalization
IsCamelName(x) ==
    /\ x # <<>>
    /\ IsLowerOrDigit(x[1])
    /\ \A i \in 1..Len(x) : x[i] # "_"

\* lowercase-and-digit words (non-empty) joined by single underscores
IsSnakeName(y) ==
    /\ y # <<>>
    /\ y[1] # "_" /\ y[Len(y)] # "_"
    /\ \A i \in 1..Len(y) : ~isupper(y[i])
    /\ \A i \in 1..(Len(y) - 1) : ~(y[i] = "_" /\ y[i + 1] = "_")

\* C15: for every identifier x of lowercase-and-digit words joined by
\* internal capitalization, snake_to_camel(camel_to_snake(x)) = x.
C15_CamelRoundTrip ==
    (fn.name = "camel_to_snake" /\ IsCamelName(fn.arg)) =>
        /\ IsSnakeName(fn.out)
        /\ snake_to_camel(fn.out) = fn.arg

C15_Witness ==
    /\ fn.name = "camel_to_snake"
    /\ fn.arg = <<"a", "1", "B", "A">>
    /\ fn.out = <<"a", "1", "_", "b", "_", "a">>

\* C16: for every identifier y of lowercase-and-digit words joined by
\* underscores (words that begin with a digit included),
\* camel_to_snake(snake_to_camel(y)) = y.
C16_SnakeRoundTrip ==
    (fn.name = "snake_to_camel" /\ IsSnakeName(fn.arg)) =>
        camel_to_snake(fn.out) = fn.arg

\* =================================================================== sorting
CreateTimeEntries(clauses) ==
    {i \in 1..Len(clauses) :
        clauses[i].column \in {k_create_time, alias_f \o <<".">> \o k_create_time}}

\* C17: for every sequence of sort directives the compiled ORDER BY holds
\* exactly one entry for the default-order field create_time.
C17_ExactlyOneCreateTime ==
    fn.name = "get_sorter_sql" => Cardinality(CreateTimeEntries(fn.out)) = 1

\* ================================================================ pagination
\* C18: with a page size other than -1 the data query ends with
\* LIMIT pageSize OFFSET (page-1)*pageSize; with page size -1 it gets no
\* LIMIT/OFFSET, whatever the page.
C18_LimitOffset ==
    (fn.name = "find" /\ ~fn.arg.limit.is_none) =>
        IF fn.arg.limit.v = -1 THEN fn.out.clause = "none"
        ELSE ~fn.arg.page.is_none =>
                /\ fn.out.clause = "LIMIT"
                /\ fn.out.limit = fn.arg.limit.v
                /\ fn.out.offset + fn.arg.limit.v = fn.arg.page.v * fn.arg.limit.v

C18_Witness ==
    /\ fn.name = "find"
    /\ fn.arg = [page |-> IntValue(2), limit |-> IntValue(10)]
    /\ fn.out = [clause |-> "LIMIT", limit |-> 10, offset |-> 10]

\* =============================================================== time ranges
\* the filters of a request that are a two-element array on a "Time" key
TimeRanges(body) ==
    {i \in 1..Len(body) :
        /\ \E j \in 1..(Len(body[i].key) - 3) :
              SubSeq(body[i].key, j, j + 3) = <<"T", "i", "m", "e">>
        /\ body[i].value.kind = "list"
        /\ Len(body[i].value.items) = 2}

\* C19: a filter whose key contains "Time" and whose value is a two-element
\* array [a, b] compiles to `field BETWEEN ? AND ?` on that field, also when
\* the field is listed as precise, with a then b bound as its parameters;
\* the field gets no other condition.
C19_TimeRangeIsBetween ==
    \A p \in Procs :
        Compiled(p) =>
            \A i \in TimeRanges(cmp[p].body) :
                LET sql == cmp[p].sql
                    snake == camel_to_snake(cmp[p].body[i].key)
                    names == {snake, alias_f \o <<".">> \o snake}
                    on == {j \in 1..Len(sql.conds) :
                              \E f \in names : sql.conds[j].fields = <<f>>}
                IN /\ Cardinality(on) = 1
                   /\ \A j \in on :
                        LET at == Placeholders(SubSeq(sql.conds, 1, j - 1)) IN
                        /\ sql.conds[j].op = "BETWEEN"
                        /\ sql.conds[j].n = 2
                        /\ sql.params[at + 1].v.items = <<cmp[p].body[i].value.items[1]>>
                        /\ sql.params[at + 2].v.items = <<cmp[p].body[i].value.items[2]>>

C19_Witness ==
    \E p \in Procs :
        /\ Compiled(p)
        /\ TimeRanges(cmp[p].body) = {2}
        /\ cmp[p].body[2].value = VList(<<"y", "x">>)
        /\ k_create_time \in cmp[p].ep.precise_fields
        /\ cmp[p].kw.present /\ ~IsBlank(cmp[p].kw.value)
        /\ \E j \in 1..Len(cmp[p].sql.conds) : cmp[p].sql.conds[j].op = "BETWEEN"

\* ==================================================================== writes
\* C20: when the relational store fails during an update, an insert or an
\* item of batch_operation, the caller is told of a store error: the outcome
\* differs from that of a mutation that succeeded and affected no row.
C20_WriteFailureIsReported ==
    \A p \in Procs :
        (Deleted(p) /\ del[p].op \in {"update", "insert", "batch"} /\ del[p].failed) =>
            del[p].err # "none"

\* C21: a request whose token verifies is accepted only when the profile
\* record is in the cache, and never after a logout of that user has
\* completed with no record written since.
C21_LoggedOutTokenRejected ==
    \A p \in Procs :
        auth.req[p].accepted => auth.req[p].hit /\ ~auth.req[p].stale

\* C22: every `org_id IN (...)` condition of a compiled query has at least
\* one placeholder (an empty scope never yields `IN ()`).
C22_NoEmptyInList ==
    \A p \in Procs :
        Compiled(p) =>
            \A i \in 1..Len(cmp[p].sql.conds) :
                cmp[p].sql.conds[i].op = "IN" => cmp[p].sql.conds[i].n >= 1

\* C23: a connection that is back in the pool has no transaction open:
\* every begin is followed by a commit or a rollback before the release.
C23_NoOpenTransactionInPool ==
    \A p \in Procs : conn[p].pooled => conn[p].st # "begun"

\* C24: the descendant set held by the cache for an organization equals the
\* descendant set of that organization in one single state that the
\* organization table has been in.
C24_CacheIsOneState ==
    \A o \in CallOrgs :
        redis[auth_org_ids_key(o)].kind = "set" =>
            \E d \in past : redis[auth_org_ids_key(o)].members = d[o]

\* C25: when no directive is on create_time itself, the ORDER BY ends with
\* the default `create_time DESC` (alias-qualified when mapped); and every
\* directive on another field keeps its entry, also when its storage name
\* contains the text create_time.
C25_DefaultUnlessTargeted ==
    fn.name = "get_sorter_sql" =>
        LET sorter == fn.arg.sorter
            map == fn.arg.valid_columns_with_alias
            targeted == \E i \in 1..Len(sorter) :
                            camel_to_snake(sorter[i].field) = k_create_time
        IN /\ ~targeted =>
                /\ fn.out # <<>>
                /\ fn.out[Len(fn.out)] =
                       [column |-> sort_field(map, k_create_time), dir |-> "DESC"]
           /\ \A i \in 1..Len(sorter) :
                (/\ camel_to_snake(sorter[i].field) # k_create_time
                 /\ sorter[i].direction \in {1, 0 - 1}) =>
                    \E j \in 1..Len(fn.out) :
                        /\ fn.out[j].column =
                               sort_field(map, camel_to_snake(sorter[i].field))
                        /\ fn.out[j].dir =
                               IF sorter[i].direction = 1 THEN "ASC" ELSE "DESC"

\* C26: with page = -1 the data query gets no LIMIT/OFFSET clause, whatever
\* the page size (and so never a negative OFFSET).
C26_PageMinusOneIsUnpaginated ==
    (fn.name = "find" /\ fn.arg.page = IntValue(0 - 1)) =>
        /\ fn.out.clause = "none"
        /\ fn.out.offset >= 0

\* C27: delete raises the partial-authorization error only when a requested
\* id names a row that does not exist or lies outside the caller's scope.
C27_PartialOnlyWhenMissing ==
    \A p \in Procs :
        (Deleted(p) /\ del[p].op = "delete"
           /\ del[p].err = "PartialAuthorization") =>
            \E i \in Range(del[p].ids) :
                \/ ~del[p].before[i].present
                \/ /\ del[p].current_org_id.present
                   /\ del[p].before[i].org_id \notin del[p].allowed_orgs

\* the filters of a request with an unsupported shape: a list that is not
\* blank and not a two-element range on a "Time" key
UnsupportedFilters(body) ==
    {i \in 1..Len(body) :
        /\ body[i].value.kind = "list"
        /\ ~IsBlank(body[i].value)
        /\ ~is_valid_time_range(body[i].key, body[i].value)}

\* C28: no query is compiled from a request that has a filter of an
\* unsupported shape (such a request is rejected instead).
C28_UnsupportedShapeRejected ==
    \A p \in Procs : Compiled(p) => UnsupportedFilters(cmp[p].body) = {}

\* the "%s" that a name written into the statement text contains
NamePlaceholders(name) ==
    LET at == {i \in 1..(Len(name) - 1) : name[i] = "%" /\ name[i + 1] = "s"}
    IN [i \in 1..Cardinality(at) |-> "name"]

RECURSIVE KeywordPlaceholders(_)
KeywordPlaceholders(fields) ==
    IF fields = <<>> THEN <<>>
    ELSE NamePlaceholders(Head(fields)) \o <<"like">>
             \o KeywordPlaceholders(Tail(fields))

\* the placeholders of a WHERE clause in text order, each named by the kind
\* of value its condition binds
RECURSIVE WherePlaceholders(_)
WherePlaceholders(conds) ==
    IF conds = <<>> THEN <<>>
    ELSE LET c == Head(conds)
             kind == IF c.op = "LIKE" THEN "like"
                     ELSE IF c.op = "IN" THEN "org" ELSE "value"
             own == IF c.op = "ANY LIKE" THEN KeywordPlaceholders(c.fields)
                    ELSE NamePlaceholders(c.fields[1]) \o [i \in 1..c.n |-> kind]
         IN own \o WherePlaceholders(Tail(conds))

\* the values of a request in the order keywords, filters, organizations
RECURSIVE FilterValues(_)
FilterValues(body) ==
    IF body = <<>> THEN <<>>
    ELSE LET v == Head(body).value
             own == IF IsBlank(v) THEN <<>>
                    ELSE IF is_valid_time_range(Head(body).key, v)
                    THEN <<VStr(v.items[1]), VStr(v.items[2])>>
                    ELSE <<v>>
         IN own \o FilterValues(Tail(body))

RequestValues(a) ==
    (IF a.kw.present /\ ~IsBlank(a.kw.value)
     THEN [i \in 1..Len(a.ep.keyword_fields) |-> a.kw.value] ELSE <<>>)
        \o FilterValues(a.body)
        \o (IF a.allowed_org_ids.k = "list"
            THEN [i \in 1..Len(a.allowed_org_ids.ids) |-> VNone] ELSE <<>>)

RequestOrgs(a) ==
    IF a.allowed_org_ids.k = "list" THEN a.allowed_org_ids.ids ELSE <<>>

\* C29: in a built statement the placeholders and the parameters are equally
\* many and the i-th placeholder is bound to the i-th value: keyword values,
\* filter values in input order, organization ids (get_filter_sql); the
\* delete-flag value of a logical delete, the ids, the organization ids
\* (delete).
C29_PlaceholdersMatchParams ==
    /\ fn.name = "_generate_where_clause" =>
          LET ph == WherePlaceholders(fn.out.conds)
              vals == RequestValues(fn.arg)
              orgs == RequestOrgs(fn.arg)
              m == Len(fn.out.params)
          IN /\ Len(ph) = m
             /\ Len(vals) = m
             /\ \A i \in 1..m :
                   /\ fn.out.params[i].k = ph[i]
                   /\ fn.out.params[i].v = vals[i]
                   /\ fn.out.params[i].k = "org" =>
                         /\ i > m - Len(orgs)
                         /\ fn.out.params[i].org = orgs[i - (m - Len(orgs))]
    /\ fn.name = "delete" =>
          LET ph == fn.out.conds
              m == Len(fn.out.params)
              n == Len(fn.arg.ids)
              f == IF fn.arg.physical THEN 0 ELSE 1
          IN /\ Len(ph) = m
             /\ \A i \in 1..m : fn.out.params[i].k = ph[i]
             /\ ~fn.arg.physical => fn.out.params[1] = BoundValue("delete_value", 1)
             /\ \A i \in 1..n : fn.out.params[f + i] = BoundValue("id", fn.arg.ids[i])
             /\ fn.arg.current_org_id.present =>
                   /\ m = f + n + Len(fn.arg.allowed_orgs)
                   /\ \A i \in 1..Len(fn.arg.allowed_orgs) :
                         fn.out.params[f + n + i] =
                             BoundValue("org", fn.arg.allowed_orgs[i])
             /\ ~fn.arg.current_org_id.present => m = f + n


\* C30: in every reachable state, also after a failed or interrupted cache
\* population and under concurrent populations, each descendant-set entry
\* present in the cache carries an expiry, and that expiry lies between
\* 3600 and 3900 seconds.
C30_EveryEntryHasTtl ==
    \A o \in CallOrgs :
        redis[auth_org_ids_key(o)].kind = "set"
            => redis[auth_org_ids_key(o)].ttl \in TtlBase..(TtlBase + TtlJitter)

====
